---- MODULE Spec2Model ----
(***************************************************************************)
(* ClawGuard: the gated reverse proxy, its approval coordinator            *)
(* (ApprovalManager), the out-of-band notifier (TelegramNotifier) and the  *)
(* audit store (AuditLogger), as a state machine.                          *)
(*                                                                         *)
(* One step of the model is one run-to-completion turn of the Node event   *)
(* loop: a handler together with every promise continuation (microtask)    *)
(* it releases.                                                            *)
(*                                                                         *)
(* Time is Date.now() in milliseconds.  The program only ever compares a   *)
(* stored instant with the present one, so the state holds every instant   *)
(* as its distance from the present: now reads 0, a future instant is      *)
(* positive and a past one negative.  When d ms pass, every stored instant *)
(* moves back by d (action Tick).                                          *)
(***************************************************************************)
EXTENDS Integers, Sequences, FiniteSets, TLC

(***************************************************************************)
(* Bounds of the model.                                                    *)
(***************************************************************************)
\* proxy requests that arrive in one behaviour
MaxReq == 2
\* invocations of one request's reply callback that are followed
MaxCalls == 2
\* proxy requests in a behaviour of LongSpec
MaxReqLong == 3
\* audit rows in the table when the proxy port takes a request
MaxRows == 2
\* rules in the policy of a service whose evaluation is checked on its own
MaxRules == 2
\* characters in a hostname that the allowlist test is applied to
MaxHost == 5

(***************************************************************************)
(* Program constants.                                                      *)
(***************************************************************************)
\* ApprovalManager's approvalTimeoutMs default
ApprovalTimeoutMs == 120000
\* the TTLs the six buttons carry, in seconds
TtlOnce == 1
Ttl15m == 900
Ttl1h == 3600
Ttl8h == 28800
Ttl24h == 86400
\* HTTP status of a denial
StatusForbidden == 403

(***************************************************************************)
(* Configuration (clawguard.yaml): the services, the approver chat, the    *)
(* pairing secret.                                                         *)
(***************************************************************************)
\* an absent (or empty, hence falsy) rule predicate
NoMethod == ""
NoPath == << >>

\* config.services at startup: "gh" auto-approves GET (the rule's method is
\* written in lower case in the file), "sl" always asks, "mp" never asks.
BootServices ==
  [gh |-> [default |-> "require_approval",
           rules |-> << [method |-> "get", path |-> NoPath,
                         action |-> "auto_approve"] >>],
   sl |-> [default |-> "require_approval", rules |-> << >>],
   mp |-> [default |-> "auto_approve", rules |-> << >>]]

ServiceNames == {"gh", "sl", "mp"}

\* chat identities: c1 is config.chatId, c2 is another chat
Chats == {"c1", "c2"}
ConfigChatId == "c1"
PairingSecret == "s3cret"
Secrets == {"s3cret", "wrong"}

\* Date.now(): the present instant, the origin of the time axis
now == 0

\* callback_data action tags that approve
ApproveTags == {"approve_once", "approve_15m", "approve_1h", "approve_8h",
                "approve_24h"}
\* the buttons tapped in the behaviours explored
TapTags == {"approve_once", "approve_1h", "deny"}
\* query.from.first_name of the person who taps the buttons
UserName == "ann"

\* the requests an agent sends: <<service, method, upstream path>>
ReqInputs ==
  { <<"gh", "GET", <<"/", "u">> >>,
    <<"gh", "POST", <<"/", "r">> >>,
    <<"sl", "POST", <<"/", "c">> >> }

VARIABLES
  pairingEnabled,   \* config.notifications.telegram.pairing.enabled
  services,         \* config.services, the live service table
  activeApprovals,  \* ApprovalManager.activeApprovals: service -> Approval
  approvals,        \* table approvals (rows in id order)
  nextId,           \* the AUTOINCREMENT sequence of table approvals
  requests,         \* table requests (audit rows in id order)
  pairedUsers,      \* table telegram_paired_users (chat ids)
  paired,           \* TelegramNotifier.paired
  pendingCallbacks, \* TelegramNotifier.pendingCallbacks (request ids)
  handlers,         \* callback_query handlers suspended at their awaits
  timers,           \* armed approval timers: request id -> time left
  reqs,             \* the proxy requests, in arrival order, with their fate
  presented,        \* history: chats that sent the right secret, not unpaired
  hist,             \* history: per service, the latest grant event
  ctx,              \* what each proxy handler past routing holds (its closure)
  last,             \* what the last step showed the agent and the upstream
  call,             \* a function of the program under evaluation on its own:
                    \* its arguments and, once it returned, its result
  servicesOverride, \* table services_override: service_name -> config_json
  admin             \* the last exchange on the admin surface: the request
                    \* and the response to it

vars == <<pairingEnabled, services, activeApprovals, approvals, nextId,
          requests, pairedUsers, paired, pendingCallbacks, handlers, timers,
          reqs, presented, hist, ctx, last, call, servicesOverride,
          admin>>

\* the state of the HTTP pipeline around the approval
pipeVars == <<ctx, last>>

\* what a step of the approval flow on its own leaves alone
sideVars == <<ctx, last, call, servicesOverride, admin>>

\* what a step of the HTTP pipeline leaves alone
offVars == <<call, servicesOverride, admin>>

(***************************************************************************)
(* Helpers on sequences and maps.                                          *)
(***************************************************************************)
MapSet(m, k, v) == [x \in DOMAIN m \cup {k} |-> IF x = k THEN v ELSE m[x]]

MapDelete(m, k) == [x \in DOMAIN m \ {k} |-> m[x]]

EmptyMap == [x \in {} |-> 0]

\* String.prototype.startsWith on sequences of characters
StartsWith(s, p) ==
  /\ Len(p) <= Len(s)
  /\ \A i \in 1..Len(p) : s[i] = p[i]

\* String.prototype.toUpperCase on the method names that occur
ToUpperCase(m) ==
  CASE m = "get" -> "GET"
    [] m = "post" -> "POST"
    [] m = "Post" -> "POST"
    [] OTHER -> m

(***************************************************************************)
(* ApprovalManager: policy evaluation.                                     *)
(***************************************************************************)
\* a test of a rule that looks at the method only
matchesRuleMethodOnly(rule, method, path) ==
  ~(rule.method # NoMethod /\ ToUpperCase(rule.method) # ToUpperCase(method))

matchesRule(rule, method, path) ==
  IF rule.method # NoMethod /\ ToUpperCase(rule.method) # ToUpperCase(method)
  THEN FALSE
  ELSE IF rule.path # NoPath /\ ~StartsWith(path, rule.path)
  THEN FALSE
  ELSE TRUE

RECURSIVE firstMatch(_, _, _, _)
firstMatch(rules, i, method, path) ==
  IF i > Len(rules) THEN "none"
  ELSE IF matchesRule(rules[i], method, path) THEN rules[i].action
  ELSE firstMatch(rules, i + 1, method, path)

getAction(serviceConfig, method, path) ==
  LET a == firstMatch(serviceConfig.rules, 1, method, path)
  IN IF a # "none" THEN a ELSE serviceConfig.default

(***************************************************************************)
(* AuditLogger: the approvals table.  A row is                             *)
(* [id, timestamp, service, approved_by, ttl_seconds, expires_at, revoked].*)
(***************************************************************************)
\* logApproval: INSERT INTO approvals
logApproval(rows, id, service, approvedBy, ttlSeconds, t) ==
  Append(rows, [id |-> id, timestamp |-> t, service |-> service,
                approved_by |-> approvedBy, ttl_seconds |-> ttlSeconds,
                expires_at |-> t + ttlSeconds * 1000, revoked |-> FALSE])

\* getActiveApprovals: DELETE FROM approvals WHERE expires_at <= now
NotExpiredRow(row, t) == ~(row.expires_at <= t)

deleteExpired(rows, t) == SelectSeq(rows, LAMBDA row : NotExpiredRow(row, t))

\* a SELECT that also returns the revoked rows
SelectedRowRevokedToo(row, t) == row.expires_at > t

\* getActiveApprovals: WHERE expires_at > now AND revoked = 0
SelectedRow(row, t) == row.expires_at > t /\ ~row.revoked

\* getActiveApprovals: the loop over the rows ORDER BY id DESC, which skips
\* a row whose service was seen; i runs from the last row down to the first
RECURSIVE dedupe(_, _, _, _, _)
dedupe(rows, i, t, seen, out) ==
  IF i = 0 THEN out
  ELSE IF ~SelectedRow(rows[i], t) THEN dedupe(rows, i - 1, t, seen, out)
  ELSE IF rows[i].service \in seen THEN dedupe(rows, i - 1, t, seen, out)
  ELSE dedupe(rows, i - 1, t, seen \cup {rows[i].service},
              Append(out, [service |-> rows[i].service,
                           approvedAt |-> rows[i].timestamp,
                           expiresAt |-> rows[i].expires_at,
                           approvedBy |-> rows[i].approved_by]))

getActiveApprovals(rows, t) ==
  LET kept == deleteExpired(rows, t)
  IN dedupe(kept, Len(kept), t, {}, << >>)

\* an UPDATE that matches no row
revokeNothingInDb(rows, service) == rows

\* revokeApprovalInDb: UPDATE approvals SET revoked = 1 WHERE service = ?
\* AND revoked = 0
revokeApprovalInDb(rows, service) ==
  [i \in DOMAIN rows |->
     IF rows[i].service = service /\ ~rows[i].revoked
     THEN [rows[i] EXCEPT !.revoked = TRUE]
     ELSE rows[i]]

\* isPairedUser: SELECT 1 FROM telegram_paired_users WHERE chat_id = ?
isPairedUser(users, chatId) == chatId \in users

(***************************************************************************)
(* ApprovalManager: the in-memory grants.  An Approval is                  *)
(* [service, approvedAt, expiresAt, approvedBy].                           *)
(***************************************************************************)
\* restoreApprovals: activeApprovals.set for each saved approval, in order
RECURSIVE restoreInto(_, _, _)
restoreInto(m, saved, i) ==
  IF i > Len(saved) THEN m
  ELSE restoreInto(MapSet(m, saved[i].service, saved[i]), saved, i + 1)

restoreApprovals(rows, t) == restoreInto(EmptyMap, getActiveApprovals(rows, t), 1)

\* hasActiveApproval: the expiry test, Date.now() > approval.expiresAt
Expired(approval, t) == t > approval.expiresAt

\* a check that takes a PendingApproval of the service for a Grant
hasApprovalOrPending(m, service, t) ==
  \/ service \in DOMAIN m /\ ~Expired(m[service], t)
  \/ \E r \in pendingCallbacks : reqs[r].service = service

\* hasActiveApproval: its result
hasActiveApproval(m, service, t) ==
  /\ service \in DOMAIN m
  /\ ~Expired(m[service], t)

\* hasActiveApproval: the map it leaves (a stale entry is deleted in place)
afterHasActiveApproval(m, service, t) ==
  IF service \in DOMAIN m /\ Expired(m[service], t)
  THEN MapDelete(m, service)
  ELSE m

(***************************************************************************)
(* TelegramNotifier: what each button hands to the reply callback.         *)
(***************************************************************************)
\* setupCallbackHandler: the second argument of callback(...) in each case
ttlSecondsOf(tag) ==
  CASE tag = "approve_once" -> TtlOnce
    [] tag = "approve_15m" -> Ttl15m
    [] tag = "approve_1h" -> Ttl1h
    [] tag = "approve_8h" -> Ttl8h
    [] tag = "approve_24h" -> Ttl24h
    [] OTHER -> 0

\* setupCallbackHandler: the first argument of callback(...) in each case
approvedOf(tag) == tag \in ApproveTags

\* setupCallbackHandler: the cases of the switch (any other tag falls through)
KnownTag(tag) == tag \in ApproveTags \cup {"deny"}

\* the TTL, in seconds, that the prompt protocol assigns to each button
ClaimedTtl(tag) ==
  CASE tag = "approve_once" -> 1
    [] tag = "approve_15m" -> 900
    [] tag = "approve_1h" -> 3600
    [] tag = "approve_8h" -> 28800
    [] tag = "approve_24h" -> 86400
    [] OTHER -> 0

callbackResult(tag, userName) ==
  [approved |-> approvedOf(tag), ttlSeconds |-> ttlSecondsOf(tag),
   approvedBy |-> userName]

\* checkApproval: what the timer resolves timeoutPromise with
timeoutResult == [approved |-> FALSE, ttlSeconds |-> 0, approvedBy |-> "timeout"]

\* requestApproval: what it returns when pairing is on and the bot is unpaired
unpairedResult == [approved |-> FALSE, ttlSeconds |-> 0, approvedBy |-> "unpaired"]

NoResult == [approved |-> FALSE, ttlSeconds |-> 0, approvedBy |-> "none"]

\* requestApproval: the test that denies at once
DeniesUnpaired(enabled, flag) == enabled /\ ~flag

\* a pairing check that lets every chat through
RefusesNobody(enabled, users, chatId) == FALSE

\* setupCallbackHandler: the test that refuses a choice
RefusesChoice(enabled, users, chatId) == enabled /\ ~isPairedUser(users, chatId)

\* a comparison that accepts every secret
SecretAlwaysMatches(providedSecret, secret) == TRUE

\* setupPairingHandler: providedSecret === this.config.pairing.secret
SecretMatches(providedSecret, secret) == providedSecret = secret

(***************************************************************************)
(* The proxy requests.  Besides its inputs a request records what the      *)
(* pipeline did with it:                                                   *)
(*   state   waiting | forwarded | denied | error | aborted | over | gone  *)
(*   via     how checkApproval returned true: auto | grant | prompt        *)
(*   asked   requestApproval was called for it (a fresh decision is needed)*)
(*   prompted  the prompt message reached the chat                         *)
(*   result  what Promise.race resolved with; tag: the button, if any      *)
(*   by      the chat whose choice invoked its reply callback last         *)
(*   gSpan, gAge  of the service's Approval in the map at the instant the  *)
(*           request was forwarded: expiresAt - approvedAt and             *)
(*           now - approvedAt (-1: the map held none)                      *)
(*   cbCalls invocations of its reply callback                             *)
(*   waited  time spent in Promise.race                                    *)
(*   status, error  the response written to the agent                      *)
(*   evAtCheck, relAtCheck, tagAtCheck, afterRevoke  what hist said of its *)
(*           service at the instant it was checked                         *)
(***************************************************************************)
\* hist of a service: kind = the latest grant event (none | grant | revoke);
\* for a grant, tag = the button tapped and exp = the instant of the
\* approval plus the TTL the prompt protocol assigns to that button;
\* revoked = the service was revoked and no require_approval request of it
\* was checked since
NoHist == [kind |-> "none", exp |-> -1, tag |-> "none", revoked |-> FALSE]

RevokedHist == [kind |-> "revoke", exp |-> -1, tag |-> "none", revoked |-> TRUE]

RelTo(t, h) ==
  IF h.kind # "grant" THEN "none"
  ELSE IF t < h.exp THEN "before"
  ELSE IF t = h.exp THEN "at" ELSE "after"

NewReq(service, method, path, action, t, h) ==
  [service |-> service, method |-> method, path |-> path, action |-> action,
   state |-> "waiting", via |-> "none", asked |-> FALSE,
   prompted |-> FALSE, result |-> NoResult, tag |-> "none", by |-> "none",
   gSpan |-> -1, gAge |-> -1, cbCalls |-> 0, waited |-> 0,
   status |-> 0, error |-> "",
   evAtCheck |-> h.kind, relAtCheck |-> RelTo(t, h), tagAtCheck |-> h.tag,
   afterRevoke |-> h.revoked]

\* the record of a request that is over and that the program no longer
\* refers to
Gone ==
  [NewReq("", "", << >>, "none", now, NoHist) EXCEPT !.state = "gone"]

\* a request is over when its handler returned, and forgotten when neither
\* the pending registry nor a suspended callback handler refers to it
Forgotten(r) ==
  /\ reqs[r].state # "waiting"
  /\ r \notin pendingCallbacks
  /\ r \notin handlers

\* what a later step needs of a request: its inputs, whether it still
\* waits, whether its prompt can be tapped, and the count of callback
\* invocations.  What the pipeline did with it is on record in the state
\* that follows the step that did it, and nowhere else.
Quiet(q) ==
  [NewReq(q.service, q.method, q.path, q.action, now, NoHist) EXCEPT
     !.state = IF q.state = "waiting" THEN "waiting" ELSE "over",
     !.prompted = q.prompted,
     !.cbCalls = q.cbCalls,
     !.waited = IF q.state = "waiting" THEN q.waited ELSE 0]

\* the requests as the next step finds them
Kept == [r \in DOMAIN reqs |-> IF Forgotten(r) THEN Gone ELSE Quiet(reqs[r])]

\* handleProxy after checkApproval returned true: the request goes upstream
Forwarded(q, via, m, t) ==
  [q EXCEPT !.state = "forwarded", !.via = via,
            !.gSpan = IF q.service \in DOMAIN m
                      THEN m[q.service].expiresAt - m[q.service].approvedAt
                      ELSE -1,
            !.gAge = IF q.service \in DOMAIN m
                     THEN t - m[q.service].approvedAt ELSE -1]

\* handleProxy after checkApproval returned false: res.status(403).json(...)
Denied(q) ==
  [q EXCEPT !.state = "denied", !.status = StatusForbidden,
            !.error = "Approval denied or timed out"]

\* handleProxy after checkApproval returned false: the audit row
deniedRow(q) ==
  [service |-> q.service, method |-> q.method, path |-> q.path,
   approved |-> FALSE, responseStatus |-> StatusForbidden]

\* an Approval that keeps the expiry of the Grant it replaces when that
\* one is later
keepLaterApproval(service, res, t) ==
  [service |-> service, approvedAt |-> t,
   expiresAt |-> IF /\ service \in DOMAIN activeApprovals
                    /\ activeApprovals[service].expiresAt > t + res.ttlSeconds * 1000
                 THEN activeApprovals[service].expiresAt
                 ELSE t + res.ttlSeconds * 1000,
   approvedBy |-> res.approvedBy]

\* checkApproval: the Approval built from an approving result
newApproval(service, res, t) ==
  [service |-> service, approvedAt |-> t,
   expiresAt |-> t + res.ttlSeconds * 1000, approvedBy |-> res.approvedBy]

\* a test that takes every result for an approval
approvedBranchAlways(res) == TRUE

\* checkApproval: if (result.approved)
approvedBranch(res) == res.approved

\* an HTTP request of an agent that is no request
NoHttp == [method |-> "", target |-> << >>, host |-> << >>, headers |-> << >>]

\* what a step shows: the agent's request it is about (h) and whether the
\* step received it (recv), the handler (mode), the service and the action
\* resolved, the outcome it decided, the response it wrote to the agent
\* (status 0: none), the audit rows it wrote, whether it emitted a prompt,
\* the request it emitted to the upstream (sent, url, headers), and the
\* status and Location the upstream answered with (up).  NoObs: a step
\* that is no step of the HTTP pipeline.
NoObs ==
  [kind |-> "none", h |-> NoHttp, recv |-> FALSE, mode |-> "",
   service |-> "", action |-> "none", outcome |-> "none", status |-> 0,
   error |-> "", rows |-> << >>, asked |-> FALSE, sent |-> FALSE,
   url |-> << >>, headers |-> << >>, up |-> << >>]

\* no function is under evaluation on its own
NoCall == [fn |-> "none"]

\* nothing was exchanged on the admin surface
NoExchange == [op |-> "none"]

\* the objects index.ts builds over an empty database
Started ==
  /\ pairingEnabled \in BOOLEAN
  /\ servicesOverride = EmptyMap
  /\ admin = NoExchange
  /\ activeApprovals = EmptyMap
  /\ approvals = << >>
  /\ nextId = 1
  /\ requests = << >>
  /\ pairedUsers = {}
  /\ paired = ~pairingEnabled
  /\ pendingCallbacks = {}
  /\ handlers = {}
  /\ timers = EmptyMap
  /\ reqs = << >>
  /\ presented = {}
  /\ hist = [s \in ServiceNames |-> NoHist]
  /\ ctx = EmptyMap
  /\ last = NoObs

\* the process after index.ts built its objects; the service table holds
\* the policy of each configured service
Booted == services = BootServices /\ Started

Init == Booted /\ call = NoCall

(***************************************************************************)
(* checkApproval after Promise.race resolved request r with res, and       *)
(* handleProxy after that.  q0 is the request as the step found it.        *)
(* dbOk: the INSERT of the step succeeds (logApproval after an approval,  *)
(* logRequest after a denial).  When logApproval throws, checkApproval     *)
(* rejects after the map was written; when logRequest throws, handleProxy  *)
(* rejects before res.status(403).  Either way no response is written.     *)
(***************************************************************************)
Resolve(r, q0, res, tag, dbOk) ==
  LET q == [q0 EXCEPT !.result = res, !.tag = tag]
      s == q.service
      m == MapSet(activeApprovals, s, newApproval(s, res, now))
  IN IF approvedBranch(res)
     THEN /\ activeApprovals' = m
          /\ hist' = [hist EXCEPT ![s] = [kind |-> "grant",
                                          exp |-> now + ClaimedTtl(tag) * 1000,
                                          tag |-> tag,
                                          revoked |-> hist[s].revoked]]
          /\ requests' = requests
          /\ IF dbOk
             THEN /\ approvals' = logApproval(approvals, nextId, s,
                                              res.approvedBy, res.ttlSeconds, now)
                  /\ nextId' = nextId + 1
                  /\ reqs' = [Kept EXCEPT ![r] = Forwarded(q, "prompt", m, now)]
             ELSE /\ UNCHANGED <<approvals, nextId>>
                  /\ reqs' = [Kept EXCEPT ![r] = [q EXCEPT !.state = "error"]]
     ELSE /\ UNCHANGED <<activeApprovals, approvals, nextId, hist>>
          /\ IF dbOk
             THEN /\ requests' = Append(requests, deniedRow(q))
                  /\ reqs' = [Kept EXCEPT ![r] = Denied(q)]
             ELSE /\ requests' = requests
                  /\ reqs' = [Kept EXCEPT ![r] = [q EXCEPT !.state = "error"]]

(***************************************************************************)
(* A proxy request arrives (handleProxy up to the await of checkApproval,  *)
(* and beyond it when checkApproval returns without waiting).  sent: the   *)
(* prompt reaches the chat (safeSendMessage swallows a send error).        *)
(***************************************************************************)
Arrive(inp, sent) ==
  LET s == inp[1]
      action == getAction(services[s], inp[2], inp[3])
      r == Len(reqs) + 1
      q == NewReq(s, inp[2], inp[3], action, now, hist[s])
  IN /\ s \in DOMAIN services
     /\ UNCHANGED <<pairingEnabled, services, approvals, nextId,
                    pairedUsers, paired, handlers, presented>>
     /\ IF action = "auto_approve"
        THEN /\ sent
             /\ reqs' = Append(Kept, Forwarded(q, "auto", activeApprovals, now))
             /\ UNCHANGED <<activeApprovals, requests, pendingCallbacks,
                            timers, hist>>
        ELSE /\ hist' = [hist EXCEPT ![s].revoked = FALSE]
             /\ activeApprovals' = afterHasActiveApproval(activeApprovals, s, now)
             /\ IF hasActiveApproval(activeApprovals, s, now)
                THEN /\ sent
                     /\ reqs' = Append(Kept, Forwarded(q, "grant", activeApprovals, now))
                     /\ UNCHANGED <<requests, pendingCallbacks, timers>>
                ELSE IF DeniesUnpaired(pairingEnabled, paired)
                THEN /\ sent
                     /\ reqs' = Append(Kept, Denied([q EXCEPT !.asked = TRUE,
                                                    !.result = unpairedResult]))
                     /\ requests' = Append(requests, deniedRow(q))
                     /\ UNCHANGED <<pendingCallbacks, timers>>
                ELSE /\ reqs' = Append(Kept, [q EXCEPT !.asked = TRUE,
                                                      !.prompted = sent])
                     /\ pendingCallbacks' = pendingCallbacks \cup {r}
                     /\ timers' = MapSet(timers, r, now + ApprovalTimeoutMs)
                     /\ UNCHANGED requests

\* a race that every resolution of a reply promise still settles
RaceAlwaysOpen(q) == TRUE

\* checkApproval: Promise.race is not settled yet, so the first of the
\* reply promise and the timeout promise to resolve decides the request
RaceOpen(q) == q.state = "waiting"

(***************************************************************************)
(* A callback_query arrives: the button tag of request r's prompt was      *)
(* tapped in chat chatId.  The handler runs up to its first await.         *)
(***************************************************************************)
Tap(chatId, tag, r, dbOk) ==
  /\ r \in DOMAIN reqs
  /\ Kept[r].prompted
  /\ UNCHANGED <<pairingEnabled, services, pairedUsers, paired, presented>>
  /\ IF RefusesChoice(pairingEnabled, pairedUsers, chatId)
     THEN /\ dbOk
          /\ reqs' = Kept
          /\ UNCHANGED <<activeApprovals, approvals, nextId, requests,
                         pendingCallbacks, handlers, timers, hist>>
     ELSE IF r \notin pendingCallbacks
     THEN /\ dbOk
          /\ reqs' = Kept
          /\ UNCHANGED <<activeApprovals, approvals, nextId, requests,
                         pendingCallbacks, handlers, timers, hist>>
     ELSE IF ~KnownTag(tag)
     THEN /\ dbOk
          /\ pendingCallbacks' = pendingCallbacks \ {r}
          /\ reqs' = Kept
          /\ UNCHANGED <<activeApprovals, approvals, nextId, requests,
                         handlers, timers, hist>>
     ELSE /\ Kept[r].cbCalls < MaxCalls
          /\ handlers' = handlers \cup {r}
          /\ UNCHANGED pendingCallbacks
          /\ IF RaceOpen(Kept[r])
             THEN /\ timers' = MapDelete(timers, r)
                  /\ Resolve(r, [Kept[r] EXCEPT !.cbCalls = @ + 1,
                                                !.by = chatId],
                             callbackResult(tag, UserName), tag, dbOk)
             ELSE /\ dbOk
                  /\ reqs' = [Kept EXCEPT ![r].cbCalls = @ + 1,
                                          ![r].by = chatId]
                  /\ UNCHANGED <<activeApprovals, approvals, nextId,
                                 requests, timers, hist>>

(***************************************************************************)
(* A suspended callback_query handler resumes after its awaits and         *)
(* removes the entry (pendingCallbacks.delete).                            *)
(***************************************************************************)
HandlerDone(r) ==
  /\ r \in handlers
  /\ handlers' = handlers \ {r}
  /\ pendingCallbacks' = pendingCallbacks \ {r}
  /\ reqs' = Kept
  /\ UNCHANGED <<pairingEnabled, services, activeApprovals, approvals,
                 nextId, requests, pairedUsers, paired, timers, presented,
                 hist>>

(***************************************************************************)
(* The approval timer of request r fires (setTimeout in checkApproval).    *)
(* The code never clears the timer: after a decision it still fires, and   *)
(* resolves a promise that Promise.race no longer reads.  That firing      *)
(* changes nothing, so timers holds the timers of waiting requests only.   *)
(***************************************************************************)
\* a timer that never runs its callback
TimerNever(left) == FALSE

\* the timer runs its callback once its delay has passed
TimerDue(left) == left <= 0

Timeout(r) ==
  /\ r \in DOMAIN timers
  /\ TimerDue(timers[r])
  /\ timers' = MapDelete(timers, r)
  /\ UNCHANGED <<pairingEnabled, services, pairedUsers, paired,
                 pendingCallbacks, handlers, presented>>
  /\ Kept[r].state = "waiting"
  /\ Resolve(r, Kept[r], timeoutResult, "none", TRUE)

(***************************************************************************)
(* The clock: d ms pass.  Every stored instant moves back by d; one that   *)
(* would lie more than 1 ms in the past is kept 1 ms in the past, since    *)
(* the program only asks whether an instant is before, at or after the     *)
(* present.  An Approval and a row move as a whole (expiresAt - approvedAt *)
(* is kept).  The clock stops at the instants at which the program can     *)
(* behave differently (a timer's deadline, an expiry and the millisecond   *)
(* after it) and never passes the deadline of an armed timer: the timer    *)
(* fires first.                                                            *)
(***************************************************************************)
Back(x, d) == IF x - d < -1 THEN -1 ELSE x - d

elapseApproval(a, d) ==
  [a EXCEPT !.expiresAt = Back(a.expiresAt, d),
            !.approvedAt = @ - (a.expiresAt - Back(a.expiresAt, d))]

elapseRow(row, d) ==
  [row EXCEPT !.expires_at = Back(row.expires_at, d),
              !.timestamp = @ - (row.expires_at - Back(row.expires_at, d))]

Expiries ==
  { activeApprovals[s].expiresAt : s \in DOMAIN activeApprovals }
    \cup { approvals[i].expires_at : i \in DOMAIN approvals }
    \cup { hist[s].exp : s \in ServiceNames }

Instants ==
  { timers[r] : r \in DOMAIN timers }
    \cup { e \in Expiries : e > 0 }
    \cup { e + 1 : e \in { x \in Expiries : x >= 0 } }

Tick(d) ==
  /\ d > 0
  /\ \A r \in DOMAIN timers : d <= timers[r]
  /\ timers' = [r \in DOMAIN timers |-> timers[r] - d]
  /\ activeApprovals' = [s \in DOMAIN activeApprovals |->
                           elapseApproval(activeApprovals[s], d)]
  /\ approvals' = [i \in DOMAIN approvals |-> elapseRow(approvals[i], d)]
  /\ hist' = [s \in ServiceNames |-> [hist[s] EXCEPT !.exp = Back(@, d)]]
  /\ reqs' = [r \in DOMAIN reqs |->
                IF Kept[r].state = "waiting"
                THEN [Kept[r] EXCEPT !.waited = @ + d] ELSE Kept[r]]
  /\ UNCHANGED <<pairingEnabled, services, nextId, requests, pairedUsers,
                 paired, pendingCallbacks, handlers, presented>>

(***************************************************************************)
(* /pair <secret> and /unpair from a chat.                                 *)
(***************************************************************************)
Pair(chatId, providedSecret) ==
  /\ reqs' = Kept
  /\ UNCHANGED <<pairingEnabled, services, activeApprovals, approvals,
                 nextId, requests, pendingCallbacks, handlers, timers, hist>>
  /\ IF ~pairingEnabled
     THEN UNCHANGED <<pairedUsers, paired, presented>>
     ELSE /\ presented' = IF providedSecret = PairingSecret
                          THEN presented \cup {chatId} ELSE presented
          /\ IF SecretMatches(providedSecret, PairingSecret)
             THEN /\ pairedUsers' = pairedUsers \cup {chatId}
                  /\ paired' = TRUE
             ELSE UNCHANGED <<pairedUsers, paired>>

Unpair(chatId) ==
  /\ pairedUsers' = pairedUsers \ {chatId}
  /\ paired' = FALSE
  /\ presented' = presented \ {chatId}
  /\ reqs' = Kept
  /\ UNCHANGED <<pairingEnabled, services, activeApprovals, approvals,
                 nextId, requests, pendingCallbacks, handlers, timers, hist>>

(***************************************************************************)
(* ApprovalManager.revokeApproval and revokeAll (admin plane).             *)
(***************************************************************************)
RECURSIVE revokeEach(_, _)
revokeEach(rows, svcs) ==
  IF svcs = {} THEN rows
  ELSE LET s == CHOOSE x \in svcs : TRUE
       IN revokeEach(revokeApprovalInDb(rows, s), svcs \ {s})

\* revokeApproval: if (this.activeApprovals.has(service))
RevokeFinds(m, service) == service \in DOMAIN m

\* a revocation that also empties the pending registry
revokeAndCancel(service) ==
  /\ reqs' = Kept
  /\ pendingCallbacks' = {}
  /\ UNCHANGED <<pairingEnabled, services, nextId, requests, pairedUsers,
                 paired, handlers, timers, presented>>
  /\ IF RevokeFinds(activeApprovals, service)
     THEN /\ activeApprovals' = MapDelete(activeApprovals, service)
          /\ approvals' = revokeApprovalInDb(approvals, service)
          /\ hist' = [hist EXCEPT ![service] = RevokedHist]
     ELSE UNCHANGED <<activeApprovals, approvals, hist>>

revokeApproval(service) ==
  /\ reqs' = Kept
  /\ UNCHANGED <<pairingEnabled, services, nextId, requests, pairedUsers,
                 paired, pendingCallbacks, handlers, timers, presented>>
  /\ IF RevokeFinds(activeApprovals, service)
     THEN /\ activeApprovals' = MapDelete(activeApprovals, service)
          /\ approvals' = revokeApprovalInDb(approvals, service)
          /\ hist' = [hist EXCEPT ![service] = RevokedHist]
     ELSE UNCHANGED <<activeApprovals, approvals, hist>>

revokeAll ==
  /\ activeApprovals' = EmptyMap
  /\ approvals' = revokeEach(approvals, DOMAIN activeApprovals)
  /\ hist' = [s \in ServiceNames |->
                IF s \in DOMAIN activeApprovals
                THEN RevokedHist ELSE hist[s]]
  /\ reqs' = Kept
  /\ UNCHANGED <<pairingEnabled, services, nextId, requests, pairedUsers,
                 paired, pendingCallbacks, handlers, timers, presented>>

(***************************************************************************)
(* The process stops (SIGINT, SIGTERM or a crash) and is started again.    *)
(* Memory is lost: the map, the pending registry, the suspended handlers   *)
(* and the timers; a request that was waiting never gets a response.       *)
(* index.ts then builds the notifier and the ApprovalManager, whose        *)
(* constructor restores the approvals.  While the process is down nothing  *)
(* but the clock moves, so the two halves are one step.                    *)
(***************************************************************************)
\* TelegramNotifier constructor: the paired flag
pairedAtStart(enabled, users) ==
  IF enabled THEN isPairedUser(users, ConfigChatId) ELSE TRUE

Restart ==
  /\ services' = BootServices
  /\ approvals' = deleteExpired(approvals, now)
  /\ activeApprovals' = restoreApprovals(approvals, now)
  /\ paired' = pairedAtStart(pairingEnabled, pairedUsers)
  /\ pendingCallbacks' = {}
  /\ handlers' = {}
  /\ timers' = EmptyMap
  /\ reqs' = [r \in DOMAIN reqs |->
                IF Kept[r].state = "waiting"
                THEN [Kept[r] EXCEPT !.state = "aborted"] ELSE Kept[r]]
  /\ UNCHANGED <<pairingEnabled, nextId, requests, pairedUsers, presented,
                 hist>>

(***************************************************************************)
(* The gateway with a store that accepts every write and a chat transport  *)
(* that delivers every prompt.                                             *)
(***************************************************************************)
Next ==
  \/ \E inp \in ReqInputs : Len(reqs) < MaxReq /\ Arrive(inp, TRUE)
       /\ UNCHANGED sideVars
  \/ \E c \in Chats, tag \in TapTags, r \in 1..MaxReq : Tap(c, tag, r, TRUE)
       /\ UNCHANGED sideVars
  \/ \E r \in 1..MaxReq : HandlerDone(r) /\ UNCHANGED sideVars
  \/ \E r \in 1..MaxReq : Timeout(r) /\ UNCHANGED sideVars
  \/ \E d \in Instants : Tick(d) /\ UNCHANGED sideVars
  \/ \E c \in Chats, secret \in Secrets : Pair(c, secret) /\ UNCHANGED sideVars
  \/ \E c \in Chats : Unpair(c) /\ UNCHANGED sideVars
  \/ \E s \in ServiceNames : revokeApproval(s) /\ UNCHANGED sideVars
  \/ revokeAll /\ UNCHANGED sideVars
  \/ Restart /\ UNCHANGED sideVars

Spec == Init /\ [][Next]_vars

\* pairing.enabled: false in the configuration
InitPairingOff == Init /\ ~pairingEnabled

(***************************************************************************)
(* The gateway with pairing off while the process keeps running, with a    *)
(* chat transport that may fail to deliver a prompt, and with the timers   *)
(* and the clock of a live event loop: a due timer runs its callback, and  *)
(* time passes.                                                            *)
(***************************************************************************)
LiveNext ==
  \/ \E inp \in ReqInputs, sent \in BOOLEAN :
       Len(reqs) < MaxReq /\ Arrive(inp, sent) /\ UNCHANGED sideVars
  \/ \E c \in Chats, tag \in TapTags, r \in 1..MaxReq : Tap(c, tag, r, TRUE)
       /\ UNCHANGED sideVars
  \/ \E r \in 1..MaxReq : HandlerDone(r) /\ UNCHANGED sideVars
  \/ \E r \in 1..MaxReq : Timeout(r) /\ UNCHANGED sideVars
  \/ \E d \in Instants : Tick(d) /\ UNCHANGED sideVars
  \/ \E s \in ServiceNames : revokeApproval(s) /\ UNCHANGED sideVars
  \/ revokeAll /\ UNCHANGED sideVars

LiveSpec ==
  /\ InitPairingOff
  /\ [][LiveNext]_vars
  /\ WF_vars(\E d \in Instants : Tick(d) /\ UNCHANGED sideVars)
  /\ \A r \in 1..MaxReq : WF_vars(Timeout(r) /\ UNCHANGED sideVars)

(***************************************************************************)
(* The gateway with pairing off and a store whose INSERT, in the step     *)
(* that follows a choice of the approver, may throw.                       *)
(***************************************************************************)
FaultNext ==
  \/ \E inp \in ReqInputs : Len(reqs) < MaxReq /\ Arrive(inp, TRUE)
       /\ UNCHANGED sideVars
  \/ \E c \in Chats, tag \in TapTags, r \in 1..MaxReq, dbOk \in BOOLEAN :
       Tap(c, tag, r, dbOk) /\ UNCHANGED sideVars
  \/ \E r \in 1..MaxReq : HandlerDone(r) /\ UNCHANGED sideVars
  \/ \E r \in 1..MaxReq : Timeout(r) /\ UNCHANGED sideVars
  \/ \E d \in Instants : Tick(d) /\ UNCHANGED sideVars
  \/ \E s \in ServiceNames : revokeApproval(s) /\ UNCHANGED sideVars
  \/ revokeAll /\ UNCHANGED sideVars
  \/ Restart /\ UNCHANGED sideVars

FaultSpec == InitPairingOff /\ [][FaultNext]_vars

(***************************************************************************)
(* One more request, all of them require_approval requests of one service, *)
(* with pairing off and no denial and no revocation: successive approvals  *)
(* of one service, and restarts.                                           *)
(***************************************************************************)
LongInputs ==
  { inp \in ReqInputs :
      /\ inp[1] = "gh"
      /\ getAction(BootServices[inp[1]], inp[2], inp[3]) = "require_approval" }

LongNext ==
  \/ \E inp \in LongInputs : Len(reqs) < MaxReqLong /\ Arrive(inp, TRUE)
       /\ UNCHANGED sideVars
  \/ \E c \in Chats, tag \in TapTags \cap ApproveTags, r \in 1..MaxReqLong :
       Tap(c, tag, r, TRUE) /\ UNCHANGED sideVars
  \/ \E r \in 1..MaxReqLong : HandlerDone(r) /\ UNCHANGED sideVars
  \/ \E r \in 1..MaxReqLong : Timeout(r) /\ UNCHANGED sideVars
  \/ \E d \in Instants : Tick(d) /\ UNCHANGED sideVars
  \/ Restart /\ UNCHANGED sideVars

LongSpec == InitPairingOff /\ [][LongNext]_vars

(***************************************************************************)
(* Properties.                                                             *)
(***************************************************************************)
Requests == DOMAIN reqs

\* the rows of a service that a start-up would load
LiveRows(s) ==
  { i \in DOMAIN approvals :
      /\ approvals[i].service = s
      /\ approvals[i].expires_at > now
      /\ ~approvals[i].revoked }

\* every row of a service is marked revoked
AllRowsRevoked(s) ==
  \A i \in DOMAIN approvals : approvals[i].service = s => approvals[i].revoked

\* C1: every forwarded request either resolved to auto_approve, or the map
\* held, at the instant of forwarding, a Grant of its service with
\* granted-at <= now < expires-at.
C1_ForwardedUnderLiveGrant ==
  \A r \in Requests :
    reqs[r].state = "forwarded" =>
      \/ reqs[r].action = "auto_approve"
      \/ /\ reqs[r].gSpan >= 0
         /\ 0 <= reqs[r].gAge
         /\ reqs[r].gAge < reqs[r].gSpan

\* C2: a step in which a waiting request is resolved by the approver's deny
\* or by the deadline makes checkApproval return false: the request is
\* answered 403 'Approval denied or timed out', the step installs no Grant
\* in the map and persists none, and the request is not forwarded then or
\* later.
C2_DenialInstallsNothing ==
  [][\A r \in DOMAIN reqs' :
       /\ (reqs'[r].tag = "deny" \/ reqs'[r].result = timeoutResult) =>
            /\ reqs'[r].state = "denied"
            /\ reqs'[r].via = "none"
            /\ reqs'[r].status = StatusForbidden
            /\ reqs'[r].error = "Approval denied or timed out"
            /\ \A s \in DOMAIN activeApprovals' :
                 /\ s \in DOMAIN activeApprovals
                 /\ activeApprovals'[s] = activeApprovals[s]
            /\ approvals' = approvals
       /\ (r \in DOMAIN reqs /\ reqs[r].state \in {"denied", "over", "gone"}) =>
            reqs'[r].state \in {"over", "gone"}]_vars

C2_Witness ==
  /\ \E r \in Requests : reqs[r].state = "denied" /\ reqs[r].tag = "deny"
  /\ DOMAIN activeApprovals # {}

\* C3: every approval wait terminates.  A waiting request gets its response
\* (it is forwarded or denied); it never waits longer than the deadline of
\* 120 s, whatever the TTL of any Grant; and when the deadline resolves it,
\* that happens 120 s after the check, with approver identity 'timeout', as
\* a denial.
C3_WaitTerminates ==
  /\ \A r \in 1..MaxReq :
       (r \in Requests /\ reqs[r].state = "waiting")
         ~> (r \in Requests /\ reqs[r].state \in {"forwarded", "denied"})
  /\ [](\A r \in Requests :
          /\ reqs[r].state = "waiting" => reqs[r].waited <= ApprovalTimeoutMs
          /\ reqs[r].result.approvedBy = "timeout" =>
               /\ reqs[r].state = "denied"
               /\ reqs[r].waited = ApprovalTimeoutMs)

C3_Witness ==
  \E r \in Requests :
    /\ reqs[r].result = timeoutResult
    /\ reqs[r].waited = ApprovalTimeoutMs
    /\ \E s \in DOMAIN activeApprovals : now < activeApprovals[s].expiresAt

\* C4: the reply callback of a PendingApproval is invoked at most once,
\* also when a second choice arrives while the handler of the first is
\* still at its awaits.
C4_CallbackInvokedOnce ==
  \A r \in Requests : reqs[r].cbCalls <= 1

\* C5: with pairing enabled, the paired chats are exactly those that sent
\* the configured secret and have not unpaired since (a wrong secret
\* records nobody), and every invocation of a reply callback comes from a
\* choice of such a chat.  While there is no such chat, no step invokes a
\* callback, resolves a request by a choice or persists a Grant, and the
\* entry of a request that goes on waiting stays registered.
C5_OnlyPairedResolve ==
  /\ [](pairingEnabled => pairedUsers = presented)
  /\ [][pairingEnabled =>
          \A r \in DOMAIN reqs :
            /\ reqs'[r].cbCalls > reqs[r].cbCalls => reqs'[r].by \in presented
            /\ presented = {} =>
                 /\ reqs'[r].cbCalls <= reqs[r].cbCalls
                 /\ reqs'[r].tag = "none"
                 /\ nextId' = nextId
                 /\ (/\ r \in pendingCallbacks
                     /\ reqs[r].state = "waiting"
                     /\ reqs'[r].state = "waiting") => r \in pendingCallbacks']_vars

C5_Witness ==
  /\ pairingEnabled
  /\ pairedUsers = {}
  /\ \E r \in Requests :
       /\ reqs[r].state = "waiting"
       /\ reqs[r].prompted
       /\ r \in pendingCallbacks

\* C6: an approval with the button of TTL tau at t installs a Grant that
\* expires at t + tau; as long as that approval is the latest grant event
\* of the service (no revocation, no later approval), a require_approval
\* request of the service checked before t + tau is forwarded without a
\* prompt, and one checked after t + tau asks for a new decision.
C6_GrantWindow ==
  \A r \in Requests :
    /\ (reqs[r].state = "forwarded" /\ reqs[r].via = "prompt") =>
         reqs[r].gSpan = ClaimedTtl(reqs[r].tag) * 1000
    /\ (reqs[r].action = "require_approval" /\ reqs[r].evAtCheck = "grant") =>
         /\ reqs[r].relAtCheck = "before" =>
              (reqs[r].via = "grant" /\ ~reqs[r].asked)
         /\ reqs[r].relAtCheck = "after" => reqs[r].asked

\* C7: while an approve_once approval is the latest grant event of a
\* service, every require_approval request of that service (the next one
\* in particular) asks for a fresh decision.
C7_OnceIsSingleUse ==
  \A r \in Requests :
    (/\ reqs[r].action = "require_approval"
     /\ reqs[r].evAtCheck = "grant"
     /\ reqs[r].tagAtCheck = "approve_once") => reqs[r].asked

\* C8 as stated: after a revocation of a service that had a Grant, and
\* until the next require_approval request of the service is checked, the
\* map has no entry for the service and every row of the service is marked
\* revoked (so a restart restores nothing), and that next request asks for
\* a new decision.
C8_AfterRevoke ==
  /\ \A s \in ServiceNames :
       hist[s].revoked => (s \notin DOMAIN activeApprovals /\ AllRowsRevoked(s))
  /\ \A r \in Requests :
       (reqs[r].action = "require_approval" /\ reqs[r].afterRevoke) =>
         reqs[r].asked

\* C8 amended: after a revocation of a service that had a Grant, and until
\* an approval of that service is given afterwards, the map has no entry for
\* the service, in a restarted process too, every row of the service is
\* marked revoked, and every require_approval request of the service asks
\* for a new decision.
C8_AfterRevokeUntilApproval ==
  /\ \A s \in ServiceNames :
       hist[s].kind = "revoke" =>
         (s \notin DOMAIN activeApprovals /\ AllRowsRevoked(s))
  /\ \A r \in Requests :
       (reqs[r].action = "require_approval" /\ reqs[r].evAtCheck = "revoke") =>
         (reqs[r].asked /\ reqs[r].via # "grant")

C8_Witness ==
  \E r \in Requests :
    /\ reqs[r].evAtCheck = "revoke"
    /\ reqs[r].asked
    /\ \E i \in DOMAIN approvals :
         /\ approvals[i].service = reqs[r].service
         /\ approvals[i].revoked
         /\ approvals[i].expires_at > now

\* C9: a restart leaves in the map, for each service, the Grant of the
\* newest persisted row that is neither expired (expires-at > now) nor
\* revoked, and nothing else; the same step deletes the expired rows from
\* the store and keeps the others.
C9_RestartRestores ==
  [][Restart =>
       /\ DOMAIN activeApprovals' = { s \in ServiceNames : LiveRows(s) # {} }
       /\ \A s \in DOMAIN activeApprovals' :
            \E i \in LiveRows(s) :
              /\ \A j \in LiveRows(s) : approvals[j].id <= approvals[i].id
              /\ activeApprovals'[s] =
                   [service |-> s,
                    approvedAt |-> approvals[i].timestamp,
                    expiresAt |-> approvals[i].expires_at,
                    approvedBy |-> approvals[i].approved_by]
       /\ approvals' = SelectSeq(approvals, LAMBDA row : row.expires_at > now)]_vars

C9_Witness ==
  /\ \E r \in Requests : reqs[r].state = "aborted"
  /\ \E s \in DOMAIN activeApprovals : now < activeApprovals[s].expiresAt

\* C10: every Grant in the map that is live (now < expires-at) has a
\* persisted row of its service that is neither revoked nor expired.
C10_MapWithinStore ==
  \A s \in DOMAIN activeApprovals :
    now < activeApprovals[s].expiresAt =>
      \E i \in DOMAIN approvals :
        /\ approvals[i].service = s
        /\ ~approvals[i].revoked
        /\ approvals[i].expires_at > now

(***************************************************************************)
(* The HTTP pipeline around the approval (proxy.ts).  A string that the    *)
(* code takes apart (a request target, a Host header, a URL, a host name)  *)
(* is a sequence of characters; a URL scheme with its colon is one         *)
(* character of such a sequence ("https:").                                *)
(***************************************************************************)
\* String.prototype.substring(n)
Substring(s, n) == SubSeq(s, n + 1, Len(s))

\* String.prototype.endsWith
EndsWith(s, p) ==
  /\ Len(p) <= Len(s)
  /\ SubSeq(s, Len(s) - Len(p) + 1, Len(s)) = p

\* the index of the first character of s at or after i that is in stops,
\* Len(s) + 1 when there is none
RECURSIVE FindFirst(_, _, _)
FindFirst(s, i, stops) ==
  IF i > Len(s) THEN Len(s) + 1
  ELSE IF s[i] \in stops THEN i
  ELSE FindFirst(s, i + 1, stops)

\* the index of the last "/" of s, 0 when there is none
RECURSIVE LastSlash(_, _)
LastSlash(s, i) ==
  IF i = 0 THEN 0
  ELSE IF s[i] = "/" THEN i
  ELSE LastSlash(s, i - 1)

Schemes == {"https:", "http:", "ftp:"}

\* the segments of a path from index i on: the characters between one "/"
\* and the next
RECURSIVE SegmentsFrom(_, _, _)
SegmentsFrom(p, i, cur) ==
  IF i > Len(p) THEN <<cur>>
  ELSE IF p[i] = "/" THEN <<cur>> \o SegmentsFrom(p, i + 1, << >>)
  ELSE SegmentsFrom(p, i + 1, Append(cur, p[i]))

\* the URL parser's walk over the segments: ".." drops the segment before
\* it, "." is skipped, and either of them as the last segment leaves an
\* empty last segment
RECURSIVE Shorten(_, _, _)
Shorten(segs, i, out) ==
  IF i > Len(segs) THEN out
  ELSE IF segs[i] = <<".", ".">>
  THEN LET popped == IF out = << >> THEN out
                     ELSE SubSeq(out, 1, Len(out) - 1)
       IN Shorten(segs, i + 1,
                  IF i = Len(segs) THEN Append(popped, << >>) ELSE popped)
  ELSE IF segs[i] = <<".">>
  THEN Shorten(segs, i + 1, IF i = Len(segs) THEN Append(out, << >>) ELSE out)
  ELSE Shorten(segs, i + 1, Append(out, segs[i]))

RECURSIVE JoinSegments(_, _)
JoinSegments(segs, i) ==
  IF i > Len(segs) THEN << >>
  ELSE <<"/">> \o segs[i] \o JoinSegments(segs, i + 1)

\* the pathname the URL parser keeps of a path that begins with "/": its
\* dot segments are removed
RemoveDotSegments(p) ==
  JoinSegments(Shorten(SegmentsFrom(p, 2, << >>), 1, << >>), 1)

\* the path of a reference as it is written, and its query
RawPathAndSearch(s) ==
  LET q == FindFirst(s, 1, {"?"})
  IN [pathname |-> SubSeq(s, 1, q - 1), search |-> SubSeq(s, q, Len(s))]

\* the parts of a reference after its authority: path ("/" when empty) and
\* query
PathAndSearch(s) ==
  LET raw == RawPathAndSearch(s)
  IN [pathname |-> IF raw.pathname = << >> THEN <<"/">>
                   ELSE RemoveDotSegments(raw.pathname),
      search |-> raw.search]

\* "//host:port/path?query" without its scheme, read under protocol
FromAuthority(protocol, s) ==
  LET rest == Substring(s, 2)
      e == FindFirst(rest, 1, {"/", "?"})
      authority == SubSeq(rest, 1, e - 1)
      c == FindFirst(authority, 1, {":"})
      tail == PathAndSearch(SubSeq(rest, e, Len(rest)))
  IN [protocol |-> protocol,
      hostname |-> SubSeq(authority, 1, c - 1),
      port |-> SubSeq(authority, c + 1, Len(authority)),
      pathname |-> tail.pathname,
      search |-> tail.search]

\* new URL(href): an absolute URL
parseURL(href) == FromAuthority(href[1], Substring(href, 1))

\* new URL(ref, base), base an absolute URL: the reference resolution of
\* the URL standard for the references that occur (no fragment, no
\* backslash, no percent-encoded dot)
newURL(ref, base) ==
  LET b == parseURL(base)
  IN IF ref # << >> /\ ref[1] \in Schemes THEN parseURL(ref)
     ELSE IF StartsWith(ref, <<"/", "/">>) THEN FromAuthority(b.protocol, ref)
     ELSE IF ref # << >> /\ ref[1] = "/"
     THEN [b EXCEPT !.pathname = PathAndSearch(ref).pathname,
                    !.search = PathAndSearch(ref).search]
     ELSE IF ref # << >> /\ ref[1] = "?"
     THEN [b EXCEPT !.search = ref]
     ELSE IF ref = << >> THEN b
     ELSE [b EXCEPT !.pathname =
                      RemoveDotSegments(
                        SubSeq(b.pathname, 1,
                               LastSlash(b.pathname, Len(b.pathname)))
                          \o RawPathAndSearch(ref).pathname),
                    !.search = RawPathAndSearch(ref).search]

\* URL.prototype.host
hostOf(u) == IF u.port = << >> THEN u.hostname ELSE u.hostname \o <<":">> \o u.port

\* URL.prototype.toString
toString(u) == <<u.protocol, "/", "/">> \o hostOf(u) \o u.pathname \o u.search

(***************************************************************************)
(* security.ts: the upstream policy.                                       *)
(***************************************************************************)
\* config.security
SecurityConfig ==
  [allowedUpstreams |-> << <<"u">>, <<"v">>, <<"w">> >>,
   blockPrivateIPs |-> TRUE,
   followRedirects |-> FALSE]

Digit == {"0", "1", "2", "3", "4", "5", "6", "7", "8", "9"}

\* String.prototype.toLowerCase on the capital letters that occur
ToLowerCase(s) ==
  [i \in DOMAIN s |->
     CASE s[i] = "A" -> "a"
       [] s[i] = "C" -> "c"
       [] s[i] = "E" -> "e"
       [] s[i] = "F" -> "f"
       [] s[i] = "K" -> "k"
       [] s[i] = "X" -> "x"
       [] OTHER -> s[i]]

\* /^172\.(1[6-9]|2\d|3[01])\./
ClassB(ip) ==
  /\ StartsWith(ip, <<"1", "7", "2", ".">>)
  /\ Len(ip) >= 7
  /\ ip[7] = "."
  /\ \/ ip[5] = "1" /\ ip[6] \in {"6", "7", "8", "9"}
     \/ ip[5] = "2" /\ ip[6] \in Digit
     \/ ip[5] = "3" /\ ip[6] \in {"0", "1"}

\* PRIVATE_IP_RANGES.some(range => range.test(ip))
isPrivateIP(ip) ==
  \/ StartsWith(ip, <<"1", "2", "7", ".">>)
  \/ StartsWith(ip, <<"1", "0", ".">>)
  \/ ClassB(ip)
  \/ StartsWith(ip, <<"1", "9", "2", ".", "1", "6", "8", ".">>)
  \/ StartsWith(ip, <<"1", "6", "9", ".", "2", "5", "4", ".">>)
  \/ StartsWith(ip, <<"0", ".">>)
  \/ ip = <<":", ":", "1">>
  \/ StartsWith(ToLowerCase(ip), <<"f", "c", "0", "0", ":">>)
  \/ StartsWith(ToLowerCase(ip), <<"f", "e", "8", "0", ":">>)

\* an allowlist test whose suffix match needs no dot
isAllowedSuffix(hostname, allowedUpstreams) ==
  IF Len(allowedUpstreams) = 0 THEN TRUE
  ELSE \E i \in DOMAIN allowedUpstreams :
         EndsWith(hostname, allowedUpstreams[i])

isAllowedUpstream(hostname, allowedUpstreams) ==
  IF Len(allowedUpstreams) = 0 THEN TRUE
  ELSE \E i \in DOMAIN allowedUpstreams :
         \/ hostname = allowedUpstreams[i]
         \/ EndsWith(hostname, <<".">> \o allowedUpstreams[i])

\* new URL(href) returns: of the strings that occur, the absolute ones
\* (a scheme, "//" and a host); on any other it throws TypeError
parses(href) ==
  /\ Len(href) >= 4
  /\ href[1] \in Schemes
  /\ href[2] = "/" /\ href[3] = "/"
  /\ href[4] \notin {"/", "?", ":"}

\* validateUpstreamUrl(...).valid
validateUpstreamUrl(urlString, security) ==
  LET parsed == parseURL(urlString)
  IN IF ~parses(urlString) THEN FALSE
     ELSE IF ~isAllowedUpstream(parsed.hostname, security.allowedUpstreams)
     THEN FALSE
     ELSE IF security.blockPrivateIPs /\ isPrivateIP(parsed.hostname)
     THEN FALSE
     ELSE IF parsed.protocol \notin {"http:", "https:"} THEN FALSE
     ELSE TRUE

\* validateRuntimeUrl(...).valid
validateRuntimeUrl(constructedUrl, originalUpstream, security) ==
  IF parseURL(constructedUrl).hostname # parseURL(originalUpstream).hostname
  THEN FALSE
  ELSE validateUpstreamUrl(constructedUrl, security)

(***************************************************************************)
(* Configuration of the pipeline: the agent key, and for each service its  *)
(* upstream base URL, its intercept hostnames and its credential.          *)
(***************************************************************************)
\* config.server.agentKey
AgentKey == <<"K">>

\* header names, as Node hands them to the handler (lower case)
HClawguardKey ==
  <<"x", "-", "c", "l", "a", "w", "g", "u", "a", "r", "d", "-", "k", "e",
    "y">>
HAgentgateKey ==
  <<"x", "-", "a", "g", "e", "n", "t", "g", "a", "t", "e", "-", "k", "e",
    "y">>
HClawguardTrace ==
  <<"x", "-", "c", "l", "a", "w", "g", "u", "a", "r", "d", "-", "t", "r",
    "a", "c", "e">>
HHost == <<"h", "o", "s", "t">>
HAuthorization ==
  <<"a", "u", "t", "h", "o", "r", "i", "z", "a", "t", "i", "o", "n">>
HApiKeyLower == <<"x", "-", "a", "p", "i", "-", "k", "e", "y">>
HAccept == <<"a", "c", "c", "e", "p", "t">>
\* the prefixes the proxy strips
PClawguard == <<"x", "-", "c", "l", "a", "w", "g", "u", "a", "r", "d">>
PAgentgate == <<"x", "-", "a", "g", "e", "n", "t", "g", "a", "t", "e">>
\* auth.headerName of service sl, as written in the configuration
HApiKey == <<"X", "-", "A", "p", "i", "-", "K", "e", "y">>

\* the fields of config.services that no step reads for the policy: the
\* upstream base URL (gh: https://u/a, sl: https://v, mp: https://w),
\* hostnames, auth
BootRouting ==
  [gh |-> [upstream |-> <<"https:", "/", "/", "u", "/", "a">>,
           hostnames |-> << <<"u">> >>,
           auth |-> [type |-> "bearer", token |-> "T1",
                     headerName |-> << >>, paramName |-> << >>]],
   sl |-> [upstream |-> <<"https:", "/", "/", "v">>,
           hostnames |-> << >>,
           auth |-> [type |-> "header", token |-> "T2",
                     headerName |-> HApiKey, paramName |-> << >>]],
   mp |-> [upstream |-> <<"https:", "/", "/", "w">>,
           hostnames |-> << <<"w">> >>,
           auth |-> [type |-> "query", token |-> "T3",
                     headerName |-> << >>, paramName |-> <<"k">>]]]

\* the keys of config.services, as strings that a path segment is
\* compared with
ServiceKeys ==
  [gh |-> <<"g", "h">>, sl |-> <<"s", "l">>, mp |-> <<"m", "p">>]

(***************************************************************************)
(* An HTTP request of an agent: [method, target, host, headers]; target is *)
(* req.originalUrl, host the Host header, headers the other entries of     *)
(* req.headers in order, each [name, value].                               *)
(***************************************************************************)
\* req.headers[name], << >> when absent (a header value is a sequence of
\* characters)
RECURSIVE HeaderFrom(_, _, _)
HeaderFrom(headers, name, i) ==
  IF i > Len(headers) THEN << >>
  ELSE IF headers[i].name = name THEN headers[i].value
  ELSE HeaderFrom(headers, name, i + 1)

Header(headers, name) == HeaderFrom(headers, name, 1)

\* req.headers['x-clawguard-key'] || req.headers['x-agentgate-key']
agentKeyOf(headers) ==
  IF Header(headers, HClawguardKey) # << >>
  THEN Header(headers, HClawguardKey)
  ELSE Header(headers, HAgentgateKey)

\* the path of a request target, which Express matches the routes with
Pathname(target) == SubSeq(target, 1, FindFirst(target, 1, {"?"}) - 1)

\* req.params.service: the first path segment, << >> when the path does
\* not begin with "/" and a segment
FirstSegment(target) ==
  LET p == Pathname(target)
  IN IF p # << >> /\ p[1] = "/"
     THEN SubSeq(p, 2, FindFirst(p, 2, {"/"}) - 1)
     ELSE << >>

\* app.all('/:service') or app.all('/:service/*') matches
MatchesServiceRoute(target) == FirstSegment(target) # << >>

\* config.services[serviceName]: the key, "" when there is none
serviceNamed(svcs, seg) ==
  IF \E s \in DOMAIN svcs : ServiceKeys[s] = seg
  THEN CHOOSE s \in DOMAIN svcs : ServiceKeys[s] = seg
  ELSE ""

\* Object.entries(services): the keys in insertion order
ServiceOrder == <<"gh", "sl", "mp">>

\* host.split(':')[0]
StripPort(host) == SubSeq(host, 1, FindFirst(host, 1, {":"}) - 1)

\* resolveServiceByHost: the name of the first service that lists the
\* hostname, "" for null
RECURSIVE resolveFrom(_, _, _)
resolveFrom(hostname, svcs, i) ==
  IF i > Len(ServiceOrder) THEN ""
  ELSE IF /\ ServiceOrder[i] \in DOMAIN svcs
          /\ \E k \in DOMAIN BootRouting[ServiceOrder[i]].hostnames :
               BootRouting[ServiceOrder[i]].hostnames[k] = hostname
  THEN ServiceOrder[i]
  ELSE resolveFrom(hostname, svcs, i + 1)

resolveServiceByHost(host, svcs) ==
  IF host = << >> THEN "" ELSE resolveFrom(StripPort(host), svcs, 1)


(***************************************************************************)
(* The forward step of both handlers: the headers and the credential.      *)
(***************************************************************************)
\* Object.entries(req.headers): the Host header and the other entries
reqHeaders(h) ==
  IF h.host = << >> THEN h.headers
  ELSE <<[name |-> HHost, value |-> h.host]>> \o h.headers

\* obj[key] = value on an object whose entries are kept in insertion order
ObjSet(obj, key, value) ==
  IF \E i \in DOMAIN obj : obj[i].name = key
  THEN [i \in DOMAIN obj |->
          IF obj[i].name = key THEN [name |-> key, value |-> value]
          ELSE obj[i]]
  ELSE Append(obj, [name |-> key, value |-> value])

\* a loop that copies every header of the agent
copyAll(headers) == headers

\* the loop over req.headers: what it copies to forwardHeaders (the header
\* names of a request are distinct)
copied(headers) ==
  SelectSeq(headers,
            LAMBDA e : /\ ~StartsWith(ToLowerCase(e.name), PClawguard)
                       /\ ~StartsWith(ToLowerCase(e.name), PAgentgate)
                       /\ ToLowerCase(e.name) # HHost)

\* `Bearer ${token}`
BearerOf(token) == <<"Bearer", " ", token>>

\* forwardHeaders after the credential and the host were set
forwardHeadersOf(headers, auth, url) ==
  LET c == copied(headers)
      a == IF auth.type = "bearer"
           THEN ObjSet(c, HAuthorization, BearerOf(auth.token))
           ELSE IF auth.type = "header" /\ auth.headerName # << >>
           THEN ObjSet(c, auth.headerName, <<auth.token>>)
           ELSE c
  IN ObjSet(a, HHost, hostOf(url))

\* URLSearchParams of a query string: the pairs [name, value] in order
RECURSIVE pairsOf(_)
pairsOf(q) ==
  IF q = << >> THEN << >>
  ELSE LET e == FindFirst(q, 1, {"&"})
           item == SubSeq(q, 1, e - 1)
           c == FindFirst(item, 1, {"="})
           rest == pairsOf(SubSeq(q, e + 1, Len(q)))
       IN IF item = << >> THEN rest
          ELSE <<[name |-> SubSeq(item, 1, c - 1),
                  value |-> SubSeq(item, c + 1, Len(item))]>> \o rest

\* URLSearchParams.prototype.set: the first pair of that name takes the
\* value and the others of that name go, or the pair is appended
paramsSet(pairs, name, value) ==
  IF \E i \in DOMAIN pairs : pairs[i].name = name
  THEN LET first == CHOOSE i \in DOMAIN pairs :
                      /\ pairs[i].name = name
                      /\ \A j \in 1..(i - 1) : pairs[j].name # name
           others == SelectSeq(SubSeq(pairs, first + 1, Len(pairs)),
                               LAMBDA e : e.name # name)
       IN SubSeq(pairs, 1, first - 1)
            \o <<[name |-> name, value |-> value]>> \o others
  ELSE Append(pairs, [name |-> name, value |-> value])

\* the serialisation of URLSearchParams, with its "?"
RECURSIVE joinPairs(_, _)
joinPairs(pairs, i) ==
  IF i > Len(pairs) THEN << >>
  ELSE (IF i = 1 THEN <<"?">> ELSE <<"&">>)
         \o pairs[i].name \o <<"=">> \o pairs[i].value
         \o joinPairs(pairs, i + 1)

\* upstreamUrl after the credential step
withCredential(url, auth) ==
  IF auth.type = "query" /\ auth.paramName # << >>
  THEN [url EXCEPT !.search =
          joinPairs(paramsSet(pairsOf(Substring(url.search, 1)),
                              auth.paramName, <<auth.token>>), 1)]
  ELSE url

\* http.request(url, {headers}): ClientRequest calls setHeader for each
\* key in order, and setHeader keeps one value per lower-cased name, the
\* last one set
RECURSIVE setHeaders(_, _, _)
setHeaders(out, obj, i) ==
  IF i > Len(obj) THEN out
  ELSE setHeaders(ObjSet(out, ToLowerCase(obj[i].name), obj[i].value),
                  obj, i + 1)

\* the headers that go on the wire
wireHeaders(headers, auth, url) ==
  setHeaders(<< >>, forwardHeadersOf(headers, auth, url), 1)

(***************************************************************************)
(* The handlers up to the await of checkApproval.  A head is what the      *)
(* handler decided: status 0, it goes on to checkApproval; any other       *)
(* status, it answered and returned, after writing an audit row or not.    *)
(***************************************************************************)
StatusNotFound == 404
StatusUnauthorized == 401
StatusBadGateway == 502
StatusInternalError == 500

Decided(mode, status, error, audited, service, upstreamPath, url) ==
  [mode |-> mode, status |-> status, error |-> error, audited |-> audited,
   service |-> service, upstreamPath |-> upstreamPath, url |-> url]

NoUrl == parseURL(<<"https:", "/", "/">>)

\* handleProxy, for a request that app.all('/:service') or
\* app.all('/:service/*') matched
handleProxyHead(h, svcs) ==
  LET seg == FirstSegment(h.target)
      name == serviceNamed(svcs, seg)
      prefixLen == Len(seg) + 1
      rest == Substring(h.target, prefixLen)
      upstreamPath == IF rest = << >> THEN <<"/">> ELSE rest
      upstreamUrl == newURL(upstreamPath, BootRouting[name].upstream)
  IN IF StartsWith(seg, <<"_", "_">>)
     THEN Decided("path", StatusNotFound, "Not found", FALSE, "", << >>, NoUrl)
     ELSE IF name = ""
     THEN Decided("path", StatusNotFound, "Unknown service", FALSE, "", << >>,
               NoUrl)
     ELSE IF agentKeyOf(h.headers) # AgentKey
     THEN Decided("path", StatusUnauthorized,
               "Invalid or missing X-ClawGuard-Key", FALSE, "", << >>, NoUrl)
     ELSE IF ~validateRuntimeUrl(toString(upstreamUrl),
                                 BootRouting[name].upstream, SecurityConfig)
     THEN Decided("path", StatusForbidden, "Request blocked by security policy",
               TRUE, name, upstreamPath, upstreamUrl)
     ELSE Decided("path", 0, "", FALSE, name, upstreamPath, upstreamUrl)

\* handleHostProxy, for a request that only app.all('*') matched
handleHostProxyHead(h, svcs) ==
  LET name == resolveServiceByHost(h.host, svcs)
      upstreamPath == IF h.target = << >> THEN <<"/">> ELSE h.target
      upstreamUrl == newURL(upstreamPath, BootRouting[name].upstream)
  IN IF name = ""
     THEN Decided("host", StatusNotFound, "Unknown host", FALSE, "", << >>,
               NoUrl)
     ELSE IF agentKeyOf(h.headers) # AgentKey
     THEN Decided("host", StatusUnauthorized,
               "Invalid or missing X-ClawGuard-Key", FALSE, "", << >>, NoUrl)
     ELSE IF ~validateRuntimeUrl(toString(upstreamUrl),
                                 BootRouting[name].upstream, SecurityConfig)
     THEN Decided("host", StatusForbidden, "Request blocked by security policy",
               FALSE, name, upstreamPath, upstreamUrl)
     ELSE Decided("host", 0, "", FALSE, name, upstreamPath, upstreamUrl)

\* createProxy: the routes in the order of their registration
route(h, svcs) ==
  IF MatchesServiceRoute(h.target) THEN handleProxyHead(h, svcs)
  ELSE handleHostProxyHead(h, svcs)

\* audit.logRequest: the row
auditRow(service, method, path, approved, responseStatus) ==
  [service |-> service, method |-> method, path |-> path,
   approved |-> approved, responseStatus |-> responseStatus]

(***************************************************************************)
(* The handler of request r after checkApproval settled, and the closure   *)
(* it keeps while the upstream works.                                      *)
(***************************************************************************)
\* the closure of a handler: c.phase is "approval" while checkApproval is
\* awaited, "upstream" once the request went upstream, "streaming" once the
\* upstream answered and its response is piped to the agent
Closure(d, h, action) ==
  [mode |-> d.mode, service |-> d.service, req |-> h,
   upstreamPath |-> d.upstreamPath, upstreamUrl |-> d.url,
   action |-> action, phase |-> "approval", status |-> 0]

\* what every step of the handler with closure c shows
about(c) ==
  [NoObs EXCEPT !.h = c.req, !.mode = c.mode, !.service = c.service,
                !.action = c.action]

\* the rows this step wrote
written == SubSeq(requests', Len(requests) + 1, Len(requests'))

\* the request the handler emits: transport.request(upstreamUrl.toString(),
\* {method, headers: forwardHeaders})
emitted(c) ==
  [about(c) EXCEPT
     !.kind = "forward", !.sent = TRUE,
     !.url = toString(withCredential(c.upstreamUrl,
                                     BootRouting[c.service].auth)),
     !.headers = wireHeaders(reqHeaders(c.req),
                             BootRouting[c.service].auth,
                             withCredential(c.upstreamUrl,
                                            BootRouting[c.service].auth))]

\* both handlers after `await checkApproval` for request r with closure c,
\* in a step that left the request as q
afterApproval(r, c, q, recv) ==
  IF q.state = "forwarded"
  THEN /\ ctx' = MapSet(ctx, r, [c EXCEPT !.phase = "upstream"])
       /\ last' = [emitted(c) EXCEPT !.recv = recv, !.asked = recv /\ q.asked]
  ELSE IF q.state = "denied"
  THEN /\ ctx' = MapDelete(ctx, r)
       /\ last' = [about(c) EXCEPT !.kind = "answer", !.recv = recv,
                                   !.asked = recv /\ q.asked,
                                   !.outcome = "approval-deny",
                                   !.status = q.status, !.error = q.error,
                                   !.rows = written]
  ELSE IF q.state = "waiting"
  THEN /\ ctx' = MapSet(ctx, r, c)
       /\ last' = [about(c) EXCEPT !.kind = "wait", !.recv = recv,
                                   !.asked = recv /\ q.asked]
  ELSE /\ ctx' = MapDelete(ctx, r)
       /\ last' = NoObs

(***************************************************************************)
(* An HTTP request of an agent arrives at the proxy port.                  *)
(***************************************************************************)
Receive(h) ==
  LET d == route(h, services)
      r == Len(reqs) + 1
  IN IF d.status # 0
     THEN /\ requests' =
               IF d.audited
               THEN Append(requests,
                           auditRow(d.service, h.method, d.upstreamPath,
                                    FALSE, d.status))
               ELSE requests
          /\ reqs' = Kept
          /\ ctx' = ctx
          /\ last' = [NoObs EXCEPT
                        !.kind = "answer", !.h = h, !.recv = TRUE,
                        !.mode = d.mode, !.service = d.service,
                        !.outcome =
                           IF d.status = StatusForbidden THEN "ssrf-deny"
                           ELSE IF d.status = StatusUnauthorized
                           THEN "identity" ELSE "not-found",
                        !.status = d.status, !.error = d.error,
                        !.rows = written]
          /\ UNCHANGED <<pairingEnabled, services, activeApprovals,
                         approvals, nextId, pairedUsers, paired,
                         pendingCallbacks, handlers, timers, presented, hist>>
     ELSE /\ Arrive(<<d.service, h.method, d.upstreamPath>>, TRUE)
          /\ afterApproval(r, Closure(d, h, reqs'[r].action), reqs'[r],
                           TRUE)

\* a step of the approval flow, as the handler that awaits request r sees it
settle(r) ==
  IF r \in DOMAIN ctx /\ ctx[r].phase = "approval"
  THEN afterApproval(r, ctx[r], reqs'[r], FALSE)
  ELSE ctx' = ctx /\ last' = NoObs

\* a step that no handler of the pipeline takes part in
aside == ctx' = ctx /\ last' = NoObs

(***************************************************************************)
(* The upstream answers request r: the callback of transport.request runs  *)
(* with the status line and the headers of the upstream's response.        *)
(* location: the Location header, << >> when there is none.               *)
(***************************************************************************)
\* the handler whose response callback checks redirects
checksRedirects(mode) == mode = "path"

\* the redirect re-check refuses the response
redirectBlocked(c, status, location) ==
  /\ checksRedirects(c.mode)
  /\ ~SecurityConfig.followRedirects
  /\ status >= 300 /\ status < 400
  /\ location # << >>
  /\ ~validateRuntimeUrl(
        toString(newURL(location,
                        toString(withCredential(c.upstreamUrl,
                                                BootRouting[c.service].auth)))),
        BootRouting[c.service].upstream, SecurityConfig)

UpstreamResponse(r, status, location) ==
  /\ r \in DOMAIN ctx
  /\ ctx[r].phase = "upstream"
  /\ reqs' = Kept
  /\ IF redirectBlocked(ctx[r], status, location)
     THEN /\ requests' = Append(requests,
                                auditRow(ctx[r].service, ctx[r].req.method,
                                         ctx[r].upstreamPath, TRUE,
                                         StatusForbidden))
          /\ ctx' = MapDelete(ctx, r)
          /\ last' = [about(ctx[r]) EXCEPT
                        !.kind = "answer",
                        !.outcome = "redirect-deny",
                        !.status = StatusForbidden,
                        !.error = "Redirect blocked by security policy",
                        !.rows = written,
                        !.up = <<status, location>>]
     ELSE /\ requests' = requests
          /\ ctx' = [ctx EXCEPT ![r].phase = "streaming",
                                ![r].status = status]
          /\ last' = [about(ctx[r]) EXCEPT
                        !.kind = "answer",
                        !.outcome = "passed",
                        !.status = status,
                        !.up = <<status, location>>]
  /\ UNCHANGED <<pairingEnabled, services, activeApprovals, approvals,
                 nextId, pairedUsers, paired, pendingCallbacks, handlers,
                 timers, presented, hist>>

(***************************************************************************)
(* The upstream's response to request r ends (proxyRes 'end').             *)
(***************************************************************************)
UpstreamEnd(r) ==
  /\ r \in DOMAIN ctx
  /\ ctx[r].phase = "streaming"
  /\ reqs' = Kept
  /\ requests' = Append(requests,
                        auditRow(ctx[r].service, ctx[r].req.method,
                                 ctx[r].upstreamPath, TRUE, ctx[r].status))
  /\ ctx' = MapDelete(ctx, r)
  /\ last' = [about(ctx[r]) EXCEPT
                !.kind = "end", !.outcome = "upstream-success",
                !.rows = written]
  /\ UNCHANGED <<pairingEnabled, services, activeApprovals, approvals,
                 nextId, pairedUsers, paired, pendingCallbacks, handlers,
                 timers, presented, hist>>

(***************************************************************************)
(* The request to the upstream fails before a response (proxyReq 'error'). *)
(***************************************************************************)
UpstreamError(r) ==
  /\ r \in DOMAIN ctx
  /\ ctx[r].phase = "upstream"
  /\ reqs' = Kept
  /\ requests' = Append(requests,
                        auditRow(ctx[r].service, ctx[r].req.method,
                                 ctx[r].upstreamPath, TRUE,
                                 StatusBadGateway))
  /\ ctx' = MapDelete(ctx, r)
  /\ last' = [about(ctx[r]) EXCEPT
                !.kind = "answer", !.outcome = "upstream-error",
                !.status = StatusBadGateway, !.error = "Upstream error",
                !.rows = written]
  /\ UNCHANGED <<pairingEnabled, services, activeApprovals, approvals,
                 nextId, pairedUsers, paired, pendingCallbacks, handlers,
                 timers, presented, hist>>

(***************************************************************************)
(* The proxy port with pairing off, while the process keeps running: the   *)
(* HTTP requests of an agent that awaits each response before its next     *)
(* request, the approval flow, and the upstream.                           *)
(***************************************************************************)
\* the header sets an agent sends besides Host
KeyOnly == <<[name |-> HClawguardKey, value |-> AgentKey]>>
LegacyKey == <<[name |-> HAgentgateKey, value |-> AgentKey]>>
WrongKey == <<[name |-> HClawguardKey, value |-> <<"B">>]>>
Loaded(v) ==
  <<[name |-> HClawguardKey, value |-> AgentKey],
    [name |-> HClawguardTrace, value |-> <<"t">>],
    [name |-> HAgentgateKey, value |-> <<"B">>],
    [name |-> HAuthorization, value |-> v],
    [name |-> HApiKeyLower, value |-> v],
    [name |-> HAccept, value |-> <<"j">>]>>

Http(method, target, host, headers) ==
  [method |-> method, target |-> target, host |-> host, headers |-> headers]

\* the requests an agent sends to the proxy port; "p" is the proxy's own
\* host name, "e" a host that is no upstream
HttpInputs ==
  { Http("POST", <<"/", "g", "h", "/", "r">>, <<"p">>, Loaded(<<"e">>)),
    Http("GET", <<"/", "g", "h", "/", "u", "?", "z", "=", "1">>, <<"p">>,
         LegacyKey),
    Http("POST", <<"/", "s", "l", "/", "c">>, <<"p">>, Loaded(<<"f">>)),
    Http("GET", <<"/", "m", "p", "/", "x", "?", "k", "=", "e", "&", "z", "=",
                  "1", "&", "k", "=", "f">>, <<"p">>, KeyOnly),
    Http("GET", <<"/", "g", "h", "/", "/", "e", "/", "x">>, <<"p">>, KeyOnly),
    Http("GET", <<"/", "g", "h", "/", "/", "u", ":", "8", "/", "x">>, <<"p">>,
         KeyOnly),
    Http("GET", <<"/", "/", "e", "/", "x">>, <<"u">>, KeyOnly),
    Http("POST", <<"/">>, <<"u", ":", "8">>, KeyOnly),
    Http("GET", <<"/", "x", "?", "z", "=", "1">>, <<"u">>, KeyOnly),
    Http("GET", <<"/", "?", "z", "=", "1">>, <<"w">>, KeyOnly),
    Http("GET", <<"/", "x">>, <<"q">>, KeyOnly),
    Http("GET", <<"/", "z", "z", "/", "x">>, <<"p">>, << >>),
    Http("GET", <<"/", "z", "z", "/", "x", "?", "z", "=", "1">>, <<"u">>,
         KeyOnly),
    Http("GET", <<"/">>, <<"q">>, WrongKey),
    Http("GET", <<"/">>, << >>, KeyOnly),
    Http("POST", <<"/", "g", "h", "/", "r">>, <<"p">>, << >>),
    Http("POST", <<"/", "g", "h", "/", "r">>, <<"p">>, WrongKey),
    Http("GET", <<"/">>, <<"u">>, WrongKey),
    Http("GET", <<"/", "_", "_", "s">>, <<"p">>, KeyOnly) }

\* the status lines and Location headers an upstream answers with
UpstreamAnswers ==
  { <<200, << >> >>,
    <<302, << >> >>,
    <<302, <<"/", "y">> >>,
    <<302, <<"https:", "/", "/", "e", "/", "y">> >> }

\* the buttons tapped in the behaviours explored here
PipeTags == {"approve_once", "deny"}

ProxyNext ==
  \/ \E h \in HttpInputs :
       /\ Len(reqs) < MaxReq /\ Len(requests) < MaxRows
       /\ DOMAIN ctx = {}
       /\ Receive(h)
       /\ UNCHANGED offVars
  \/ \E tag \in PipeTags, r \in 1..MaxReq :
       Tap(ConfigChatId, tag, r, TRUE) /\ settle(r) /\ UNCHANGED offVars
  \/ \E r \in 1..MaxReq : HandlerDone(r) /\ aside /\ UNCHANGED offVars
  \/ \E r \in 1..MaxReq : Timeout(r) /\ settle(r) /\ UNCHANGED offVars
  \/ \E d \in Instants : Tick(d) /\ aside /\ UNCHANGED offVars
  \/ \E s \in ServiceNames : revokeApproval(s) /\ aside /\ UNCHANGED offVars
  \/ \E r \in 1..MaxReq, a \in UpstreamAnswers :
       UpstreamResponse(r, a[1], a[2]) /\ UNCHANGED offVars
  \/ \E r \in 1..MaxReq : UpstreamEnd(r) /\ UNCHANGED offVars
  \/ \E r \in 1..MaxReq : UpstreamError(r) /\ UNCHANGED offVars

ProxySpec == InitPairingOff /\ [][ProxyNext]_vars
\* C17: a PendingApproval whose prompt could not be delivered is resolved
\* as denied with approver identity 'telegram_error' by the send failure
\* itself (the request does not go on waiting for the deadline), and its
\* entry is removed from the pending registry.
C17_SendFailureDenies ==
  \A r \in Requests :
    (/\ reqs[r].asked
     /\ ~reqs[r].prompted
     /\ reqs[r].result # unpairedResult) =>
      /\ reqs[r].state = "denied"
      /\ reqs[r].result.approvedBy = "telegram_error"
      /\ r \notin pendingCallbacks

\* C18: a PendingApproval that has been resolved, by a decision whose
\* handler has finished or by the deadline, is no longer in the pending
\* registry (so a later choice for it would find no entry).
C18_ResolvedIsDiscarded ==
  \A r \in Requests :
    (reqs[r].state # "waiting" /\ r \notin handlers) =>
      r \notin pendingCallbacks


\* C13: every proxy request whose agent key header is missing or wrong is
\* answered 401, whatever its path or Host, known service or not: the step
\* that receives it writes 401, emits no prompt, forwards nothing and
\* writes no audit row.
C13_BadKeyIsUnauthorized ==
  (last.recv /\ agentKeyOf(last.h.headers) # AgentKey) =>
    /\ last.status = StatusUnauthorized
    /\ ~last.asked
    /\ ~last.sent
    /\ last.rows = << >>

\* what the path-prefix contract makes of a target: the base URL, then the
\* target without its leading "/<service>" ("/" if nothing remains), then
\* the credential
prefixContractUrl(service, target) ==
  LET rest == Substring(target, Len(ServiceKeys[service]) + 1)
      href == BootRouting[service].upstream
                \o (IF rest = << >> THEN <<"/">> ELSE rest)
  IN toString(withCredential(parseURL(href), BootRouting[service].auth))

\* C19: in path-prefix mode the URL of the request sent upstream is the
\* service's base URL, with its base path, followed by the request target
\* without the leading "/<service>" ("/" if nothing remains).
C19_PathPrefixUrl ==
  (last.sent /\ last.mode = "path") =>
    last.url = prefixContractUrl(last.service, last.h.target)

\* what the host-routing contract makes of a target: the base URL, then the
\* entire target, then the credential
hostContractUrl(service, target) ==
  toString(withCredential(parseURL(BootRouting[service].upstream \o target),
                          BootRouting[service].auth))

\* C20: a request with the right agent key whose first path segment names
\* no configured service is routed by its Host header, port stripped: if a
\* service lists the hostname, the request runs through that service's
\* pipeline (it is not answered 404) and what is sent upstream goes to the
\* base URL followed by the entire target; only if no service lists it is
\* the answer 404.
C20_RoutedByHost ==
  LET byHost == resolveServiceByHost(last.h.host, services)
  IN (/\ last.h # NoHttp
      /\ agentKeyOf(last.h.headers) = AgentKey
      /\ serviceNamed(services, FirstSegment(last.h.target)) = "") =>
       IF byHost = ""
       THEN last.status = StatusNotFound
       ELSE /\ last.service = byHost
            /\ last.status # StatusNotFound
            /\ last.sent => last.url = hostContractUrl(byHost, last.h.target)

\* C11: in both routing modes, a request with the right agent key for a
\* resolved service whose constructed upstream URL has a host other than
\* the configured upstream's host is answered 403 'Request blocked by
\* security policy' by the step that receives it, which forwards nothing,
\* emits no prompt and writes one audit row with approved = false and
\* status 403.
C11_SsrfBlocked ==
  LET d == route(last.h, services)
  IN (/\ last.recv
      /\ d.service # ""
      /\ hostOf(d.url) # hostOf(parseURL(BootRouting[d.service].upstream))) =>
       /\ last.status = StatusForbidden
       /\ last.error = "Request blocked by security policy"
       /\ ~last.sent
       /\ ~last.asked
       /\ last.rows = <<auditRow(d.service, last.h.method, d.upstreamPath,
                                 FALSE, StatusForbidden)>>

\* the redirect re-check refuses the Location of an upstream answer
failsRecheck(service, location) ==
  ~validateRuntimeUrl(toString(newURL(location, BootRouting[service].upstream)),
                      BootRouting[service].upstream, SecurityConfig)

\* C12: in both routing modes, with redirect-following disabled, when the
\* upstream answers 3xx with a Location that fails the redirect re-check,
\* the step that takes the answer writes 403 'Redirect blocked by security
\* policy' to the agent, not the upstream's status, and writes one audit
\* row with approved = true and status 403.
C12_RedirectBlocked ==
  (/\ last.up # << >>
   /\ ~SecurityConfig.followRedirects
   /\ last.up[1] >= 300 /\ last.up[1] < 400
   /\ last.up[2] # << >>
   /\ failsRecheck(last.service, last.up[2])) =>
    /\ last.status = StatusForbidden
    /\ last.error = "Redirect blocked by security policy"
    /\ last.rows = <<auditRow(last.service, last.h.method,
                              route(last.h, services).upstreamPath,
                              TRUE, StatusForbidden)>>

\* the terminal outcomes that the audit contract lists
AuditedOutcomes ==
  {"approval-deny", "ssrf-deny", "redirect-deny", "upstream-error",
   "upstream-success"}

\* C15: the step that decides a terminal outcome of a request past the
\* identity check and service resolution (approval-deny, SSRF-deny,
\* redirect-deny, upstream error, upstream success) writes exactly one
\* audit row, no other step of the pipeline writes one, and a request
\* answered 401 or 404 writes none.
C15_OneRowPerOutcome ==
  /\ last.outcome \in AuditedOutcomes => Len(last.rows) = 1
  /\ last.outcome \notin AuditedOutcomes => last.rows = << >>

\* C16: every audit row with approved = true is written at an instant at
\* which a live grant of its service exists, or belongs to a request whose
\* resolved action was auto_approve.
C16_ApprovedRowHasGrant ==
  \A i \in DOMAIN last.rows :
    last.rows[i].approved =>
      \/ last.action = "auto_approve"
      \/ /\ last.rows[i].service \in DOMAIN activeApprovals
         /\ now < activeApprovals[last.rows[i].service].expiresAt

\* a header of the gateway itself: the agent key header, canonical or
\* legacy, or any header with the vendor or the legacy prefix
Internal(name) ==
  \/ StartsWith(ToLowerCase(name), PClawguard)
  \/ StartsWith(ToLowerCase(name), PAgentgate)

\* the values that a list of [name, value] entries holds under a name
valuesOf(entries, name) ==
  SelectSeq(entries, LAMBDA e : ToLowerCase(e.name) = ToLowerCase(name))

\* the request sent to url with these headers carries the credential of
\* the service, and carries nothing else in its place
carriesToken(service, url, headers) ==
  LET auth == BootRouting[service].auth
  IN CASE auth.type = "bearer" ->
            valuesOf(headers, HAuthorization) =
              <<[name |-> HAuthorization, value |-> BearerOf(auth.token)]>>
       [] auth.type = "header" ->
            valuesOf(headers, auth.headerName) =
              <<[name |-> ToLowerCase(auth.headerName),
                 value |-> <<auth.token>>]>>
       [] auth.type = "query" ->
            SelectSeq(pairsOf(Substring(parseURL(url).search, 1)),
                      LAMBDA e : e.name = auth.paramName) =
              <<[name |-> auth.paramName, value |-> <<auth.token>>]>>

\* C14: the headers of every request sent upstream hold no agent key
\* header and no header with the gateway's vendor or legacy prefix, hold
\* one Host header and it names the host the request is sent to, and the
\* credential (bearer header, named header or named query parameter) is
\* the service's configured token and nothing else, whatever header or
\* query parameter of that name the agent supplied.
C14_StrippedAndInjected ==
  last.sent =>
    /\ \A i \in DOMAIN last.headers : ~Internal(last.headers[i].name)
    /\ valuesOf(last.headers, HHost) =
         <<[name |-> HHost, value |-> hostOf(parseURL(last.url))]>>
    /\ carriesToken(last.service, last.url, last.headers)

\* a request is sent upstream for service sl (named-header credential)
\* whose agent supplied the key header, a vendor-prefixed header, a
\* legacy-prefixed header and a header of the credential's name
C14_Witness ==
  /\ last.sent
  /\ last.service = "sl"
  /\ Header(last.h.headers, HClawguardTrace) # << >>
  /\ Header(last.h.headers, HAgentgateKey) # << >>
  /\ Header(last.h.headers, HApiKeyLower) # << >>
  /\ last.h.host # hostOf(parseURL(last.url))

(***************************************************************************)
(* ApprovalManager.getAction evaluated on its own: a policy of up to       *)
(* MaxRules rules and a default, applied to a method and an upstream path. *)
(***************************************************************************)
Actions == {"auto_approve", "require_approval"}

\* the rules a policy is made of: rule.match.method and rule.match.path,
\* each present or not, and rule.action
PolicyRules ==
  [method : {NoMethod, "get", "POST"},
   path : {NoPath, <<"/", "r">>},
   action : Actions]

RuleLists == UNION { [1..n -> PolicyRules] : n \in 0..MaxRules }

\* the calls of getAction that are evaluated
PolicyCalls ==
  [fn : {"getAction"}, rules : RuleLists, default : Actions,
   method : {"GET", "Post", "PUT"},
   path : {<<"/", "r", "/", "x">>, <<"/", "u">>},
   done : {FALSE}, result : {"none"}]

PolicyInit == Booted /\ ~pairingEnabled /\ call \in PolicyCalls

EvalGetAction ==
  /\ call.fn = "getAction"
  /\ ~call.done
  /\ call' = [call EXCEPT
                !.done = TRUE,
                !.result = getAction([default |-> call.default,
                                      rules |-> call.rules],
                                     call.method, call.path)]
  /\ UNCHANGED <<pairingEnabled, services, activeApprovals, approvals,
                 nextId, requests, pairedUsers, paired, pendingCallbacks,
                 handlers, timers, reqs, presented, hist, ctx, last,
                 servicesOverride, admin>>

PolicyNext == EvalGetAction

PolicySpec == PolicyInit /\ [][PolicyNext]_vars

\* a method name without its case
Folded(m) ==
  IF m \in {"get", "GET", "Get"} THEN "get"
  ELSE IF m \in {"post", "POST", "Post"} THEN "post"
  ELSE IF m \in {"put", "PUT", "Put"} THEN "put"
  ELSE m

\* all the predicates of a rule match: the method, when the rule has one,
\* equals the request's without regard to case; the path, when the rule
\* has one, is a prefix of the upstream path
PredicatesMatch(rule, method, path) ==
  /\ rule.method = NoMethod \/ Folded(rule.method) = Folded(method)
  /\ rule.path = NoPath
       \/ /\ Len(rule.path) <= Len(path)
          /\ SubSeq(path, 1, Len(rule.path)) = rule.path

\* C21: policy evaluation returns the action of the first rule, in declared
\* order, whose predicates all match, whatever later rules say, and the
\* service default when no rule matches.
C21_FirstMatchWins ==
  (call.fn = "getAction" /\ call.done) =>
    LET hits == { i \in DOMAIN call.rules :
                    PredicatesMatch(call.rules[i], call.method, call.path) }
    IN IF hits = {} THEN call.result = call.default
       ELSE \E i \in hits : /\ \A j \in hits : i <= j
                            /\ call.result = call.rules[i].action

\* getAction returned for a policy whose two rules both match, the first by
\* a method written in another case and a path prefix, with different
\* actions, and with a default that differs from the first rule's action
C21_Witness ==
  /\ call.fn = "getAction" /\ call.done
  /\ Len(call.rules) = 2
  /\ call.rules[1].method = "POST" /\ call.method = "Post"
  /\ call.rules[1].path = <<"/", "r">>
  /\ call.rules[2].method = NoMethod /\ call.rules[2].path = NoPath
  /\ call.rules[1].action # call.rules[2].action
  /\ call.default # call.rules[1].action
  /\ call.result = call.rules[1].action

(***************************************************************************)
(* isAllowedUpstream evaluated on its own: a hostname of up to MaxHost     *)
(* characters against an allowlist.                                        *)
(***************************************************************************)
HostChars == {"a", "e", "c", "."}

Hostnames == UNION { [1..n -> HostChars] : n \in 0..MaxHost }

\* security.allowedUpstreams: none, one entry, two entries
Allowlists ==
  { << >>,
    << <<"e", ".", "c">> >>,
    << <<"a">>, <<"e", ".", "c">> >>,
    << <<"c">> >> }

AllowCalls ==
  [fn : {"isAllowedUpstream"}, hostname : Hostnames,
   allowedUpstreams : Allowlists, done : {FALSE}, result : {FALSE}]

AllowInit == Booted /\ ~pairingEnabled /\ call \in AllowCalls

EvalIsAllowedUpstream ==
  /\ call.fn = "isAllowedUpstream"
  /\ ~call.done
  /\ call' = [call EXCEPT
                !.done = TRUE,
                !.result = isAllowedUpstream(call.hostname,
                                             call.allowedUpstreams)]
  /\ UNCHANGED <<pairingEnabled, services, activeApprovals, approvals,
                 nextId, requests, pairedUsers, paired, pendingCallbacks,
                 handlers, timers, reqs, presented, hist, ctx, last,
                 servicesOverride, admin>>

AllowNext == EvalIsAllowedUpstream

AllowSpec == AllowInit /\ [][AllowNext]_vars

\* the hostname is the entry, or some prefix followed by "." and the entry
EntryAdmits(hostname, entry) ==
  \/ hostname = entry
  \/ \E k \in 0..Len(hostname) :
       SubSeq(hostname, k + 1, Len(hostname)) = <<".">> \o entry

\* C22: isAllowedUpstream(hostname, allowlist) is true iff the allowlist is
\* empty, or some entry E has hostname = E or hostname ends with "." + E.
C22_AllowlistTest ==
  (call.fn = "isAllowedUpstream" /\ call.done) =>
    (call.result <=>
       \/ call.allowedUpstreams = << >>
       \/ \E i \in DOMAIN call.allowedUpstreams :
            EntryAdmits(call.hostname, call.allowedUpstreams[i]))

\* the test returned for a hostname that ends with an entry, without the
\* dot before it, and rejected it (evilexample.com against example.com)
C22_Witness ==
  /\ call.fn = "isAllowedUpstream" /\ call.done
  /\ call.allowedUpstreams = << <<"e", ".", "c">> >>
  /\ call.hostname = <<"a", "e", ".", "c">>
  /\ ~call.result

\* a step in which a revocation found a Grant and dropped it
RevokeStep ==
  \E s \in ServiceNames : hist[s].kind # "revoke" /\ hist'[s].kind = "revoke"

\* C26: a revocation leaves the pending registry, the timers and every
\* waiting request with its prompt as they were; and a request that was
\* waiting when its service's Grant was revoked, and that is approved
\* afterwards, is forwarded under a new live Grant of its service.
C26_RevokeLeavesPending ==
  [][/\ RevokeStep =>
          /\ pendingCallbacks' = pendingCallbacks
          /\ timers' = timers
          /\ \A r \in Requests :
               reqs[r].state = "waiting" =>
                 /\ reqs'[r].state = "waiting"
                 /\ reqs'[r].prompted = reqs[r].prompted
     /\ \A r \in Requests :
          (/\ reqs[r].state = "waiting"
           /\ hist[reqs[r].service].revoked
           /\ reqs'[r].state = "forwarded") =>
            /\ reqs'[r].service \in DOMAIN activeApprovals'
            /\ now < activeApprovals'[reqs'[r].service].expiresAt
            /\ activeApprovals'[reqs'[r].service].approvedAt = now]_vars

\* a request that was waiting while the Grant of its service was revoked
\* has just been approved and forwarded under a new live Grant
C26_Witness ==
  \E r \in Requests :
    /\ reqs[r].state = "forwarded"
    /\ reqs[r].via = "prompt"
    /\ hist[reqs[r].service].revoked
    /\ reqs[r].service \in DOMAIN activeApprovals
    /\ now < activeApprovals[reqs[r].service].expiresAt

\* C28: Grant state changes are persistence-first: every Grant in the map
\* has a persisted row that records it (its service, its granted-at
\* instant), and after a revocation of a service every persisted row of
\* that service is marked revoked.
C28_PersistenceFirst ==
  /\ \A s \in DOMAIN activeApprovals :
       \E i \in DOMAIN approvals :
         /\ approvals[i].service = s
         /\ approvals[i].timestamp = activeApprovals[s].approvedAt
  /\ \A s \in ServiceNames :
       hist[s].kind = "revoke" =>
         \A i \in DOMAIN approvals :
           approvals[i].service = s => approvals[i].revoked

\* the map holds a Grant of service s that has not expired
GrantLive(s) ==
  /\ s \in DOMAIN activeApprovals
  /\ now <= activeApprovals[s].expiresAt

\* the step's new request, when the step is the arrival of one
Newcomer == Len(reqs')

\* request r, waiting before the step, left the wait by a choice made on its
\* own prompt or by the firing of its own timer at its deadline
OwnRelease(r) ==
  \/ /\ reqs'[r].tag \in ApproveTags \cup {"deny"}
     /\ reqs'[r].cbCalls = reqs[r].cbCalls + 1
     /\ r \in pendingCallbacks
     /\ reqs[r].prompted
  \/ /\ reqs'[r].result = timeoutResult
     /\ r \in DOMAIN timers
     /\ timers[r] = 0

\* what C29 says of one step; canAsk: the condition under which a check that
\* finds no live Grant registers a PendingApproval
Uncoalesced(canAsk) ==
  /\ (Len(reqs') = Len(reqs) + 1
        /\ reqs'[Newcomer].action = "require_approval") =>
       IF GrantLive(reqs'[Newcomer].service)
       THEN /\ reqs'[Newcomer].state = "forwarded"
            /\ reqs'[Newcomer].via = "grant"
            /\ ~reqs'[Newcomer].asked
            /\ ~reqs'[Newcomer].prompted
            /\ pendingCallbacks' = pendingCallbacks
            /\ timers' = timers
       ELSE canAsk =>
            /\ reqs'[Newcomer].state = "waiting"
            /\ reqs'[Newcomer].asked
            /\ reqs'[Newcomer].prompted
            /\ Newcomer \notin pendingCallbacks
            /\ pendingCallbacks' = pendingCallbacks \cup {Newcomer}
            /\ Newcomer \in DOMAIN timers'
            /\ \A r \in Requests :
                 reqs[r].state = "waiting" =>
                   /\ reqs'[r].state = "waiting"
                   /\ reqs'[r].prompted = reqs[r].prompted
  /\ \A r \in Requests :
       (reqs[r].state = "waiting"
          /\ reqs'[r].state \in {"forwarded", "denied"}) =>
         /\ OwnRelease(r)
         /\ \A r2 \in Requests \ {r} :
              reqs[r2].state = "waiting" => reqs'[r2].state = "waiting"

SameButFor(s) ==
  \A s2 \in ServiceNames \ {s} :
    /\ s2 \in DOMAIN activeApprovals' <=> s2 \in DOMAIN activeApprovals
    /\ s2 \in DOMAIN activeApprovals =>
         activeApprovals'[s2] = activeApprovals[s2]

\* C30: the map holds, for a service, only the Grant of that service, one
\* at most; the approval of a waiting request with the button of TTL tau
\* at t leaves as the Grant of its service the one granted at t that
\* expires at t + tau, whatever Grant was there, and no other service's
\* Grant changes; a denial or a deadline of a waiting request leaves the
\* whole map, the existing Grant of its service included, as it was.
C30_LatestSupersedes ==
  [][/\ \A s \in DOMAIN activeApprovals' :
          /\ s \in ServiceNames
          /\ activeApprovals'[s].service = s
     /\ \A r \in Requests :
          reqs[r].state = "waiting" =>
            /\ reqs'[r].state = "forwarded" =>
                 /\ reqs[r].service \in DOMAIN activeApprovals'
                 /\ activeApprovals'[reqs[r].service].approvedAt = now
                 /\ activeApprovals'[reqs[r].service].expiresAt =
                      now + ClaimedTtl(reqs'[r].tag) * 1000
                 /\ SameButFor(reqs[r].service)
            /\ reqs'[r].state = "denied" =>
                 activeApprovals' = activeApprovals]_vars

\* an approve_once approval has just replaced a Grant of the same service
\* that a persisted, unrevoked row shows to expire later
C30_Witness ==
  \E r \in Requests :
    /\ reqs[r].state = "forwarded"
    /\ reqs[r].via = "prompt"
    /\ reqs[r].tag = "approve_once"
    /\ reqs[r].service \in DOMAIN activeApprovals
    /\ activeApprovals[reqs[r].service].expiresAt = now + TtlOnce * 1000
    /\ \E i \in DOMAIN approvals :
         /\ approvals[i].service = reqs[r].service
         /\ ~approvals[i].revoked
         /\ approvals[i].expires_at > activeApprovals[reqs[r].service].expiresAt

\* C24: whether or not the store accepts the AuditRecord, a request that is
\* denied by the approver is answered as it is when the row is written:
\* 403 'Approval denied or timed out'.
C24_AuditFailureHarmless ==
  [][\A r \in Requests :
       (reqs[r].state = "waiting" /\ reqs'[r].tag = "deny") =>
         /\ reqs'[r].state = "denied"
         /\ reqs'[r].status = StatusForbidden
         /\ reqs'[r].error = "Approval denied or timed out"]_vars

\* C25: a request whose handling raised an exception (here: checkApproval
\* rejected, or the handler threw after it, because a write to the store
\* threw) is answered 500 with the message of the error.
C25_ExceptionsAnswered500 ==
  \A r \in Requests :
    reqs[r].state = "error" =>
      /\ reqs[r].status = StatusInternalError
      /\ reqs[r].error # ""

(***************************************************************************)
(* admin.ts: the services API of the admin surface, with the override      *)
(* store of index.ts (table services_override) and the startup merge.      *)
(* Here config.services holds whole ServiceConfig objects.  An object is a *)
(* function on its keys: a key that the JavaScript object lacks is not in  *)
(* the domain.  Strings are character sequences, "" is << >>.              *)
(***************************************************************************)
\* the object o without the keys whose value the predicate drops
Restrict(o, keys) == [k \in keys |-> o[k]]

\* { ...a, ...b }
Spread(a, b) ==
  [k \in DOMAIN a \cup DOMAIN b |-> IF k \in DOMAIN b THEN b[k] ELSE a[k]]

\* b?.k spread into an object: nothing when b has no key k
Sub(b, k) == IF k \in DOMAIN b THEN b[k] ELSE EmptyMap

\* the characters of the configured tokens
tokenText ==
  [T1 |-> <<"T", "1">>,
   T2 |-> <<"T", "2">>,
   T3 |-> <<"s", "e", "c", "r", "e", "t", "T", "0", "3">>]

\* one entry of config.services as loadConfig leaves it
BootDefinition(s) ==
  LET r == BootRouting[s]
      auth == [type |-> r.auth.type, token |-> tokenText[r.auth.token],
               headerName |-> r.auth.headerName,
               paramName |-> r.auth.paramName]
      whole == [upstream |-> r.upstream, hostnames |-> r.hostnames,
                auth |-> Restrict(auth,
                           {"type", "token"}
                             \cup (IF r.auth.headerName # << >>
                                   THEN {"headerName"} ELSE {})
                             \cup (IF r.auth.paramName # << >>
                                   THEN {"paramName"} ELSE {})),
                policy |-> BootServices[s]]
  IN Restrict(whole,
              {"upstream", "auth", "policy"}
                \cup (IF r.hostnames # << >> THEN {"hostnames"} ELSE {}))

\* config.services after loadConfig and validateAllUpstreams
BootTable == [s \in ServiceNames |-> BootDefinition(s)]

\* maskToken
maskToken(token) ==
  IF Len(token) <= 8 THEN <<"*", "*", "*", "*">>
  ELSE SubSeq(token, 1, 4) \o <<"*", "*", "*", "*">>
         \o SubSeq(token, Len(token) - 3, Len(token))

\* JSON.stringify of an object whose values are no objects: its members
stringifyFlat(o) == { <<k, o[k]>> : k \in DOMAIN o }

\* JSON.parse of such a text
parseFlat(text) ==
  [k \in { m[1] : m \in text } |-> (CHOOSE m \in text : m[1] = k)[2]]

\* JSON.stringify(config) of a ServiceConfig: auth and policy are objects
stringify(c) ==
  { <<k, IF k \in {"auth", "policy"} THEN stringifyFlat(c[k]) ELSE c[k]>> :
      k \in DOMAIN c }

\* JSON.parse(row.config_json)
parse(text) ==
  [k \in { m[1] : m \in text } |->
     LET v == (CHOOSE m \in text : m[1] = k)[2]
     IN IF k \in {"auth", "policy"} THEN parseFlat(v) ELSE v]

\* saveServiceOverride: INSERT ... ON CONFLICT(service_name) DO UPDATE
saveServiceOverride(table, name, c) == MapSet(table, name, stringify(c))

\* deleteServiceOverride
deleteServiceOverride(table, name) == MapDelete(table, name)

\* getServiceOverrides
getServiceOverrides(table) == [n \in DOMAIN table |-> parse(table[n])]

\* validateUpstreamUrl(c.upstream, config.security).valid for an object c;
\* new URL(undefined) throws
upstreamValid(c) ==
  /\ "upstream" \in DOMAIN c
  /\ validateUpstreamUrl(c.upstream, SecurityConfig)

\* PUT: if (body.config?.upstream), the truth value of a string
upstreamGiven(c) == "upstream" \in DOMAIN c /\ c.upstream # << >>

\* PUT: the merge of the stored definition with the body
updatedOf(existing, c) ==
  Spread(Spread(existing, c),
         [auth |-> Spread(existing.auth, Sub(c, "auth")),
          policy |-> Spread(existing.policy, Sub(c, "policy"))])

\* GET /api/services: what is shown of one service (res.json leaves out a
\* key whose value is undefined)
shown(svc) ==
  LET auth == [type |-> svc.auth.type, token |-> maskToken(svc.auth.token),
               headerName |-> Sub(svc.auth, "headerName")]
  IN [upstream |-> svc.upstream,
      auth |-> Restrict(auth,
                 {"type", "token"}
                   \cup (IF "headerName" \in DOMAIN svc.auth
                         THEN {"headerName"} ELSE {})),
      policy |-> svc.policy]

\* GET /api/services: the body of the response
getServices(svcs) == [n \in DOMAIN svcs |-> shown(svcs[n])]

\* the process is up (it did not exit during startup)
Running == ~(admin.op = "start" /\ admin.status = 1)

\* what the services API leaves alone
adminOff ==
  <<pairingEnabled, nextId, requests, pairedUsers, paired, pendingCallbacks,
    handlers, timers, reqs, presented, ctx, last, call>>

Exchange(op, name, body, status) ==
  [op |-> op, name |-> name, body |-> body, status |-> status]

\* POST /api/services with body {name, config: c}
PostService(name, c) ==
  /\ Running
  /\ UNCHANGED <<adminOff, activeApprovals, approvals, hist>>
  /\ IF name \in DOMAIN services
     THEN /\ admin' = Exchange("POST", name, c, 409)
          /\ UNCHANGED <<services, servicesOverride>>
     ELSE IF ~upstreamValid(c)
     THEN /\ admin' = Exchange("POST", name, c, 400)
          /\ UNCHANGED <<services, servicesOverride>>
     ELSE /\ servicesOverride' = saveServiceOverride(servicesOverride, name, c)
          /\ services' = MapSet(services, name, c)
          /\ admin' = Exchange("POST", name, c, 200)

\* PUT /api/services/:name with body {config: c}
PutService(name, c) ==
  /\ Running
  /\ UNCHANGED <<adminOff, activeApprovals, approvals, hist>>
  /\ IF name \notin DOMAIN services
     THEN /\ admin' = Exchange("PUT", name, c, 404)
          /\ UNCHANGED <<services, servicesOverride>>
     ELSE IF upstreamGiven(c) /\ ~upstreamValid(c)
     THEN /\ admin' = Exchange("PUT", name, c, 400)
          /\ UNCHANGED <<services, servicesOverride>>
     ELSE /\ servicesOverride' =
               saveServiceOverride(servicesOverride, name,
                                   updatedOf(services[name], c))
          /\ services' = MapSet(services, name, updatedOf(services[name], c))
          /\ admin' = Exchange("PUT", name, c, 200)

\* DELETE /api/services/:name
DeleteService(name) ==
  /\ Running
  /\ UNCHANGED adminOff
  /\ IF name \notin DOMAIN services
     THEN /\ admin' = Exchange("DELETE", name, EmptyMap, 404)
          /\ UNCHANGED <<services, servicesOverride, activeApprovals,
                         approvals, hist>>
     ELSE /\ servicesOverride' = deleteServiceOverride(servicesOverride, name)
          /\ services' = MapDelete(services, name)
          /\ admin' = Exchange("DELETE", name, EmptyMap, 200)
          /\ IF RevokeFinds(activeApprovals, name)
             THEN /\ activeApprovals' = MapDelete(activeApprovals, name)
                  /\ approvals' = revokeApprovalInDb(approvals, name)
                  /\ hist' = [hist EXCEPT ![name] = RevokedHist]
             ELSE UNCHANGED <<activeApprovals, approvals, hist>>

\* GET /api/services
GetServices ==
  /\ Running
  /\ admin' = Exchange("GET", "", getServices(services), 200)
  /\ UNCHANGED <<adminOff, services, servicesOverride, activeApprovals,
                 approvals, hist>>

\* index.ts: the override loop throws (the warning of a skipped override
\* evaluates new URL(svcConfig.upstream).hostname)
startupThrows(overrides) ==
  \E n \in DOMAIN overrides :
    /\ ~upstreamValid(overrides[n])
    /\ ~("upstream" \in DOMAIN overrides[n] /\ parses(overrides[n].upstream))

\* index.ts: config.services after the override loop ran to its end
merged(base, overrides) ==
  [n \in DOMAIN base \cup { x \in DOMAIN overrides : upstreamValid(overrides[x]) } |->
     IF n \in DOMAIN overrides /\ upstreamValid(overrides[n])
     THEN overrides[n] ELSE base[n]]

\* The process stops and is started again: loadConfig,
\* validateAllUpstreams, the override loop, and then the objects of
\* Restart.  An exception in the loop ends the process with exit code 1.
AdminRestart ==
  /\ UNCHANGED <<pairingEnabled, nextId, requests, pairedUsers, presented,
                 hist, ctx, last, call, servicesOverride>>
  /\ pendingCallbacks' = {}
  /\ handlers' = {}
  /\ timers' = EmptyMap
  /\ reqs' = [r \in DOMAIN reqs |->
                IF Kept[r].state = "waiting"
                THEN [Kept[r] EXCEPT !.state = "aborted"] ELSE Kept[r]]
  /\ IF startupThrows(getServiceOverrides(servicesOverride))
     THEN /\ services' = EmptyMap
          /\ activeApprovals' = EmptyMap
          /\ UNCHANGED <<approvals, paired>>
          /\ admin' = Exchange("start", "", EmptyMap, 1)
     ELSE /\ services' = merged(BootTable, getServiceOverrides(servicesOverride))
          /\ approvals' = deleteExpired(approvals, now)
          /\ activeApprovals' = restoreApprovals(approvals, now)
          /\ paired' = pairedAtStart(pairingEnabled, pairedUsers)
          /\ admin' = Exchange("start", "", EmptyMap, 0)

\* the names and the bodies an administrator sends
AdminNames == {"gh", "nw"}

LongToken == <<"l", "o", "n", "g", "t", "o", "k", "e", "n">>

AdminBodies ==
  { [upstream |-> <<"https:", "/", "/", "u", "/", "b">>,
     auth |-> [type |-> "bearer", token |-> LongToken],
     policy |-> [default |-> "require_approval"]],
    [upstream |-> <<"https:", "/", "/", "w">>,
     hostnames |-> << <<"w">> >>,
     auth |-> [type |-> "query", token |-> <<"N">>, paramName |-> <<"k">>],
     policy |-> [default |-> "auto_approve"]],
    [upstream |-> <<"https:", "/", "/", "e", "/", "x">>,
     auth |-> [type |-> "bearer", token |-> <<"N">>],
     policy |-> [default |-> "auto_approve"]],
    [upstream |-> << >>],
    [policy |-> [default |-> "auto_approve"]] }

AdminInit ==
  /\ services = BootTable
  /\ Started
  /\ ~pairingEnabled
  /\ call = NoCall

AdminNext ==
  \/ \E name \in AdminNames, c \in AdminBodies : PostService(name, c)
  \/ \E name \in AdminNames, c \in AdminBodies : PutService(name, c)
  \/ \E name \in AdminNames : DeleteService(name)
  \/ GetServices
  \/ AdminRestart

AdminSpec == AdminInit /\ [][AdminNext]_vars

\* C23: every ServiceDefinition of the live table has an upstream that
\* passes validateUpstreamUrl under the loaded security config; a create or
\* an update that is refused leaves the live table and the override store
\* as they were; and a start with stored overrides skips the failing ones
\* and comes up.
C23_LiveTablePasses ==
  [][/\ \A n \in DOMAIN services' : upstreamValid(services'[n])
     /\ (admin'.op \in {"POST", "PUT"} /\ admin'.status # 200) =>
          /\ services' = services
          /\ servicesOverride' = servicesOverride
     /\ admin'.op = "start" => admin'.status = 0]_vars

\* objects a and b agree on key k: both lack it, or both have it with the
\* same value
SameProp(a, b, k) ==
  /\ k \in DOMAIN a <=> k \in DOMAIN b
  /\ k \in DOMAIN a => a[k] = b[k]

\* what is read of a service is the definition written, field by field,
\* but for the token, which is masked
ReadsBack(read, def) ==
  /\ \A k \in {"upstream", "hostnames", "policy"} : SameProp(read, def, k)
  /\ \A k \in {"type", "headerName", "paramName"} :
       SameProp(read.auth, def.auth, k)
  /\ read.auth.token = maskToken(def.auth.token)

\* C27: after a create or an update through the admin surface was accepted,
\* GET /api/services shows for that service the definition that was
\* written (for an update: the stored definition merged with the body) in
\* every field, with the token masked.
C27_WriteThenRead ==
  [][/\ (admin'.op = "POST" /\ admin'.status = 200) =>
          ReadsBack(getServices(services')[admin'.name], admin'.body)
     /\ (admin'.op = "PUT" /\ admin'.status = 200) =>
          ReadsBack(getServices(services')[admin'.name],
                    updatedOf(services[admin'.name], admin'.body))]_vars

(***************************************************************************)
(* validateRuntimeUrl evaluated on its own: a constructed URL (of a        *)
(* request, or a resolved redirect Location) against an upstream base,     *)
(* under a security policy.                                                *)
(***************************************************************************)
RuntimeHosts ==
  { <<"u">>, <<"v">>, <<"e">>, <<"a", ".", "u">>, <<"1", "0", ".", "1">> }

RuntimePorts == { << >>, <<":", "8">> }

\* the absolute URLs that are constructed
RuntimeUrls ==
  { <<scheme, "/", "/">> \o host \o port \o <<"/", "x">> :
      scheme \in Schemes, host \in RuntimeHosts, port \in RuntimePorts }

\* the upstream bases that are configured
RuntimeBases ==
  { <<"https:", "/", "/", "u", "/", "a">>,
    <<"https:", "/", "/", "u", ":", "8", "/", "a">>,
    <<"http:", "/", "/", "v">>,
    <<"https:", "/", "/", "1", "0", ".", "1">> }

\* config.security: the configured allowlist, or none
RuntimePolicies ==
  { SecurityConfig, [SecurityConfig EXCEPT !.allowedUpstreams = << >>] }

RuntimeCalls ==
  [fn : {"validateRuntimeUrl"}, constructedUrl : RuntimeUrls,
   originalUpstream : RuntimeBases, security : RuntimePolicies,
   done : {FALSE}, result : {FALSE}]

RuntimeInit == Booted /\ ~pairingEnabled /\ call \in RuntimeCalls

EvalValidateRuntimeUrl ==
  /\ call.fn = "validateRuntimeUrl"
  /\ ~call.done
  /\ call' = [call EXCEPT
                !.done = TRUE,
                !.result = validateRuntimeUrl(call.constructedUrl,
                                              call.originalUpstream,
                                              call.security)]
  /\ UNCHANGED <<pairingEnabled, services, activeApprovals, approvals,
                 nextId, requests, pairedUsers, paired, pendingCallbacks,
                 handlers, timers, reqs, presented, hist, ctx, last,
                 servicesOverride, admin>>

RuntimeNext == EvalValidateRuntimeUrl

RuntimeSpec == RuntimeInit /\ [][RuntimeNext]_vars

\* C31: validateRuntimeUrl returns valid only if the constructed URL has
\* the host (hostname and port) and the scheme of the upstream base, its
\* hostname passes the allowlist, is no private address when those are
\* blocked, and its scheme is http or https.
C31_HostAndSchemePinned ==
  (call.fn = "validateRuntimeUrl" /\ call.done /\ call.result) =>
    LET c == parseURL(call.constructedUrl)
        b == parseURL(call.originalUpstream)
    IN /\ hostOf(c) = hostOf(b)
       /\ c.protocol = b.protocol
       /\ isAllowedUpstream(c.hostname, call.security.allowedUpstreams)
       /\ ~(call.security.blockPrivateIPs /\ isPrivateIP(c.hostname))
       /\ c.protocol \in {"http:", "https:"}

\* C32: a revocation reports a Grant (revokeApproval returns true, and
\* revokeAll counts the service) only for a service whose Grant in the map
\* was live at the call: now < expires-at.
C32_RevokeReportsLiveOnly ==
  [][\A s \in ServiceNames :
       (hist[s].kind # "revoke" /\ hist'[s].kind = "revoke") =>
         /\ s \in DOMAIN activeApprovals
         /\ now < activeApprovals[s].expiresAt]_vars

\* C33: a choice whose reply callback is invoked for a request that is no
\* longer waiting (its deadline resolved it: the entry is still registered
\* and the callback was never invoked before) has no effect: the map, the
\* persisted approvals and the audit rows stay as they were and the
\* request is not forwarded, so the next request of the service is checked
\* against the same map.
C33_LateChoiceHasNoEffect ==
  [][\A r \in Requests :
       (reqs[r].state # "waiting" /\ reqs'[r].cbCalls = reqs[r].cbCalls + 1) =>
         /\ activeApprovals' = activeApprovals
         /\ approvals' = approvals
         /\ requests' = requests
         /\ hist' = hist
         /\ reqs'[r].state = "over"]_vars

\* the callback of a request that the deadline had denied (one audit row,
\* no Grant, no persisted approval) has just been invoked for the first
\* time, and nothing was granted
C33_Witness ==
  \E r \in Requests :
    /\ reqs[r].state = "over"
    /\ reqs[r].by # "none"
    /\ reqs[r].cbCalls = 1
    /\ r \in pendingCallbacks
    /\ reqs[r].service \notin DOMAIN activeApprovals
    /\ approvals = << >>
    /\ Len(requests) = 1
    /\ requests[1].service = reqs[r].service
    /\ ~requests[1].approved
    /\ Len(reqs) = 1

\* C34: a restart creates no authorization: a service for which the check
\* found no live Grant in the map right before the restart has none that
\* the check accepts in the map right after it.
C34_RestartCreatesNoGrant ==
  [][Restart =>
       \A s \in ServiceNames :
         ~hasActiveApproval(activeApprovals, s, now) =>
           ~hasActiveApproval(activeApprovals', s, now)]_vars

\* C35: while pairing is enabled, the notifier's paired flag is true
\* exactly when the configured approver chat is a paired user of the store.
C35_PairedFlagIsConfiguredChat ==
  pairingEnabled => (paired <=> isPairedUser(pairedUsers, ConfigChatId))

(***************************************************************************)
(* The gateway under choices whose tag the callback_query handler's switch *)
(* has no case for: callback_data is split at ':' and the first part is    *)
(* the tag, whatever the client sent.                                      *)
(***************************************************************************)
ChoiceTags == {"approve_once", "deny", "snooze"}

ChoiceNext ==
  \/ \E inp \in ReqInputs : Len(reqs) < MaxReq /\ Arrive(inp, TRUE)
       /\ UNCHANGED sideVars
  \/ \E c \in Chats, tag \in ChoiceTags, r \in 1..MaxReq :
       Tap(c, tag, r, TRUE) /\ UNCHANGED sideVars
  \/ \E r \in 1..MaxReq : HandlerDone(r) /\ UNCHANGED sideVars
  \/ \E r \in 1..MaxReq : Timeout(r) /\ UNCHANGED sideVars
  \/ \E d \in Instants : Tick(d) /\ UNCHANGED sideVars
  \/ \E c \in Chats : Pair(c, PairingSecret) /\ UNCHANGED sideVars

ChoiceSpec == Init /\ [][ChoiceNext]_vars

\* C36: an entry of the pending map is removed only by a choice that
\* invoked the entry's reply callback: whenever a step removes the entry of
\* a request, the callback of that request has been invoked, so no choice
\* (whatever its tag) leaves a request waiting with its entry gone.
C36_RemovedOnlyWhenFulfilled ==
  [][\A r \in Requests :
       (r \in pendingCallbacks /\ r \notin pendingCallbacks') =>
         /\ reqs'[r].cbCalls > 0
         /\ reqs'[r].state # "waiting"]_vars

(***************************************************************************)
(* handleProxy up to its policy decision, evaluated on its own: a request  *)
(* target under a service whose policy asks for approval except under one  *)
(* rule with a path prefix.  The decision is taken on upstreamPath, the    *)
(* request is made to upstreamUrl.                                         *)
(***************************************************************************)
PathPrefixes == { <<"/", "p">>, <<"/", "o">> }

PathPolicies ==
  { <<[method |-> m, path |-> p, action |-> "auto_approve"]>> :
      m \in {NoMethod, "get"}, p \in PathPrefixes }

\* req.originalUrl of the requests: the agent writes the target as it
\* likes, dot segments included
PathTargets ==
  { <<"/", "g", "h", "/", "p", "/", "x">>,
    <<"/", "g", "h", "/", "p">>,
    <<"/", "g", "h", "/", "o">>,
    <<"/", "g", "h", "/", "p", "/", ".", ".", "/", "o">>,
    <<"/", "g", "h", "/", "p", "/", ".", "/", "x">>,
    <<"/", "g", "h", "/", "p", "/", ".", ".">>,
    <<"/", "g", "h", "/", "o", "/", ".", ".", "/", "p", "/", "x">>,
    <<"/", "s", "l", "/", "p", "/", ".", ".", "/", "x", "?", "z", "=", "1">> }

PathCalls ==
  [fn : {"handleProxy"},
   h : { Http(m, t, <<"p">>, k) :
           m \in {"GET", "POST"}, t \in PathTargets, k \in {KeyOnly, WrongKey} },
   rules : PathPolicies,
   done : {FALSE}, status : {0}, action : {"none"}, upstreamUrl : {NoUrl}]

PathInit == Booted /\ ~pairingEnabled /\ call \in PathCalls

EvalHandleProxy ==
  /\ call.fn = "handleProxy"
  /\ ~call.done
  /\ LET d == handleProxyHead(call.h, BootServices)
     IN call' = [call EXCEPT
                   !.done = TRUE,
                   !.status = d.status,
                   !.action = IF d.status # 0 THEN "none"
                              ELSE getAction([default |-> "require_approval",
                                              rules |-> call.rules],
                                             call.h.method, d.upstreamPath),
                   !.upstreamUrl = d.url]
  /\ UNCHANGED <<pairingEnabled, services, activeApprovals, approvals,
                 nextId, requests, pairedUsers, paired, pendingCallbacks,
                 handlers, timers, reqs, presented, hist, ctx, last,
                 servicesOverride, admin>>

PathNext == EvalHandleProxy

PathSpec == PathInit /\ [][PathNext]_vars

\* C37: the path the policy decision is made on is the path requested
\* upstream: a request that is auto-approved through the rule with path
\* prefix P is made to a URL whose path begins with P.
C37_DecidedPathIsRequested ==
  (call.fn = "handleProxy" /\ call.done /\ call.action = "auto_approve") =>
    StartsWith(call.upstreamUrl.pathname, call.rules[1].path)

(***************************************************************************)
(* The gateway with pairing off while an administrator deletes services:   *)
(* DELETE /api/services/:name runs between the steps of the requests in    *)
(* flight, which hold the serviceConfig they read when they arrived.       *)
(***************************************************************************)
DeleteNext ==
  \/ \E inp \in ReqInputs : Len(reqs) < MaxReq /\ Arrive(inp, TRUE)
       /\ UNCHANGED sideVars
  \/ \E c \in Chats, tag \in {"approve_1h", "deny"}, r \in 1..MaxReq :
       Tap(c, tag, r, TRUE) /\ UNCHANGED sideVars
  \/ \E r \in 1..MaxReq : HandlerDone(r) /\ UNCHANGED sideVars
  \/ \E r \in 1..MaxReq : Timeout(r) /\ UNCHANGED sideVars
  \/ \E d \in Instants : Tick(d) /\ UNCHANGED sideVars
  \/ \E name \in ServiceNames : DeleteService(name)

DeleteSpec == InitPairingOff /\ [][DeleteNext]_vars

\* C38: every service that has a Grant in the map is in the live service
\* table: a deletion revokes the Grant of the deleted service and nothing
\* installs one for its name afterwards.
C38_GrantsOfLiveServices ==
  \A s \in DOMAIN activeApprovals : s \in DOMAIN services

(***************************************************************************)
(* ApprovalManager.getStatus: the record that GET /__status and the admin  *)
(* dashboard show, one key per listed service.                             *)
(***************************************************************************)
getStatus(m, t) ==
  [s \in { x \in DOMAIN m : t < m[x].expiresAt } |->
     [expiresAt |-> m[s].expiresAt,
      approvedBy |-> m[s].approvedBy,
      remainingMinutes |-> (m[s].expiresAt - t + 30000) \div 60000]]

\* C39: the status report lists a service exactly when the check of that
\* service, made at the same instant, finds a Grant: the two agree in
\* every state, the instant at which a Grant expires included.
C39_StatusAgreesWithCheck ==
  \A s \in ServiceNames :
    s \in DOMAIN getStatus(activeApprovals, now)
      <=> hasActiveApproval(activeApprovals, s, now)

\* C40: the mutations made through the admin API are durable: a start of
\* the process that follows a shutdown comes up with the live table the
\* process had when it stopped, whatever creations, updates and deletions
\* were made before.
C40_TableSurvivesRestart ==
  [][(Running /\ AdminRestart) => services' = services]_vars
====
